---- MODULE Spec2Model ----
(***************************************************************************)
(* Alpha Monday worker: the weekly batch, the Daily Scheduling Loop, the   *)
(* Checkpoint Evaluator and the persistence gateway, as a state machine.   *)
(*                                                                         *)
(* Calendar dates and instants are day numbers.  Day numbers divisible by  *)
(* 7 are Mondays.  The clock `now` = d means "at or after 09:00 New York   *)
(* time of day d and before 09:00 of day d+1".                             *)
(* Decimal strings are records: a price "123.45" is Dec(12345) (value in   *)
(* hundredths); a percentage at 8 fractional digits is a record            *)
(* [neg, ip, fp] (sign, integer part, the 8 fractional digits).            *)
(***************************************************************************)
EXTENDS Integers, Naturals, Sequences, FiniteSets, TLC

VARIABLES
    store,          \* the relational store: batches, picks, checkpoints, metrics
    pc,             \* position of the weekly workflow / the loop
    day,            \* the loop variable `day` of runDailyCheckpoints
    state,          \* WeeklyPickState, the step output of persist_batch
    now,            \* the wall clock (a day number)
    loopErr,        \* what runDailyCheckpoints returned ("none" while running)
    last,           \* trace of the most recent step: calls made and their results
    statusUpdates,  \* number of UpdateBatchStatus calls of the current execution
    suspensions,    \* the targets of the SleepUntil calls of the current execution
    cyclesOK,       \* evaluator cycles that returned success in the current execution
    cyclesDone,     \* days whose evaluator cycle has returned success, over all executions
    executions,     \* how often the durable step has been (re)started
    blankDays,      \* cycles so far in which the provider answered without a previous close
    \* one evaluator cycle at the grain of its goroutines (runDailyCheckpoint, fetchPickQuotes)
    fanPc,          \* position of the cycle's own goroutine
    fanBench,       \* what the benchmark fetch returned
    fanTasks,       \* the fetch goroutines of fetchPickQuotes, one per ticker
    fanLaunched,    \* goroutines started so far by the launch loop
    fanResults,     \* the buffered channel `results`
    fanQuotes,      \* the map `quotes` of the collect loop (the tickers it holds)
    fanRet,         \* what fetchPickQuotes returned
    \* one call of retry.Do by FetchPreviousClose
    rPc,            \* position inside Do
    rCfg,           \* the retry.Config of the client
    rCtx,           \* ctx.Err(): "none" while the context is live
    rAttempt,       \* the loop variable `attempt`
    rCalls,         \* invocations of fn so far
    rLast,          \* what the latest invocation of fn returned
    rWait,          \* the delay computed after the latest retryable failure
    rRet,           \* what Do returned
    rCancel,        \* where Do was, and how often fn had run, when the context ended
    \* one call of calculateReturnPct
    pctIn,          \* its arguments
    pctOut,         \* what it returned
    \* clients of the persistence gateway and of the batch listing
    gwCall,         \* the gateway call in progress, or the one that returned last
    page,           \* one walk through the pages of ListBatches
    snap,           \* one run of the step snapshot_initial_prices and what follows it
    \* further components, each followed on its own
    gen,            \* one call of GeneratePicks of the OpenAI client
    race,           \* two evaluator cycles that persist the same (batch, date) at once
    req             \* the provider requests of one run of a rate-limited step

\* the variables of the weekly workflow and its loop
loopVars ==
    <<store, pc, day, state, now, loopErr, last, statusUpdates, cyclesOK, cyclesDone,
      executions, blankDays, suspensions>>

\* the variables of one cycle at the grain of its goroutines
fanVars == <<fanPc, fanBench, fanTasks, fanLaunched, fanResults, fanQuotes, fanRet>>

\* the variables of one call of retry.Do
retryVars == <<rPc, rCfg, rCtx, rAttempt, rCalls, rLast, rWait, rRet, rCancel>>

\* the variables of one call of calculateReturnPct
pctVars == <<pctIn, pctOut>>

\* the variables of the clients of the store
gwVars == <<gwCall, page, snap>>

\* what the weekly workflow at the grain of whole cycles leaves alone
\* the variables of the components followed on their own
otherVars == <<gen, race, req>>

auxVars == <<fanVars, retryVars, pctVars, gwVars, otherVars>>

vars == <<loopVars, auxVars>>

----------------------------------------------------------------------------
(* Program constants *)

dailyCheckpointDays == 14
metricPrecisionScale == 8
dailyCheckpointHour == 9
dailyCheckpointMinute == 0
homeLocation == "America/New_York"
priceFanoutConcurrency == 3
RequiredPicks == 3
DaysPerWeek == 7

defaultBenchmarkSymbol == "SPY"
checkpointStatusComputed == "computed"
checkpointStatusSkipped == "skipped"
batchStatusCompleted == "completed"
defaultListLimit == 20
alphaVantageRateLimitUnits == 4
defaultMaxAttempts == 2
maxListLimit == 100

(* Bounds of the model *)

StartWeek == 1          \* the week (Monday = DaysPerWeek * StartWeek) the batch is run in
MaxRestarts == 1        \* crashes of the worker during one loop
MaxBlankDays == 1       \* cycles in which the provider has no previous close for a symbol
MaxDowntime == 2        \* days the worker is down before the step is started again
MaxListWeeks == 3       \* run dates of the store whose batches are listed page by page
MaxLimit == 2           \* the largest page size a walk through the pages asks for
MaxGenAttempts == 3     \* the largest number of attempts GeneratePicks is configured with
MaxPrice == 20          \* the largest price, in hundredths, calculateReturnPct is called with
MaxTickers == 4         \* picks of the batch whose cycle is followed goroutine by goroutine

RunDate == DaysPerWeek * StartWeek
Tickers == <<"AAPL", "MSFT", "NVDA">>

----------------------------------------------------------------------------
(* Strings *)

Blank == [k |-> "blank", v |-> 0]              \* "" or white space
Garbage == [k |-> "text", v |-> 0]             \* a string that is no number / no date
Dec(n) == [k |-> "dec", v |-> n]               \* a decimal literal, n hundredths
DateStr(d) == [k |-> "date", v |-> d]          \* "2006-01-02" layout of day d
Null == [k |-> "null", v |-> 0]                \* a nil *string / SQL NULL

Abs(n) == IF n < 0 THEN -n ELSE n

RECURSIVE Pow10(_)
Pow10(n) == IF n = 0 THEN 1 ELSE 10 * Pow10(n - 1)

FracUnit == Pow10(metricPrecisionScale)

\* a percentage with metricPrecisionScale fractional digits, e.g. "-5.00000000"
Pct(neg, ip, fp) == [k |-> "pct", neg |-> neg, ip |-> ip, fp |-> fp]

----------------------------------------------------------------------------
(* Dates *)

Weekday(d) == d % DaysPerWeek
Saturday == 5
Sunday == 6

\* time.Parse("2006-01-02", value), at midnight UTC
parseDate(value) ==
    IF value.k = "date" THEN [err |-> "nil", date |-> value.v]
    ELSE [err |-> "ErrParseDate", date |-> 0]

RECURSIVE walkBackPastWeekend_SundayOnly(_)
walkBackPastWeekend_SundayOnly(d) ==
    IF Weekday(d) = Sunday THEN walkBackPastWeekend_SundayOnly(d - 1) ELSE d

RECURSIVE walkBackPastWeekend(_)
walkBackPastWeekend(d) ==
    IF Weekday(d) = Saturday \/ Weekday(d) = Sunday
    THEN walkBackPastWeekend(d - 1)
    ELSE d

previousTradingDayFallback_Same(scheduledAt) == walkBackPastWeekend(scheduledAt)

previousTradingDayFallback(scheduledAt) == walkBackPastWeekend(scheduledAt - 1)

----------------------------------------------------------------------------
(* Decimal arithmetic *)

\* new(big.Rat).SetString after strings.TrimSpace
parseDecimal(value) ==
    IF value.k = "dec" THEN [err |-> "nil", num |-> value.v, den |-> 100]
    ELSE [err |-> "ErrInvalidValue", num |-> 0, den |-> 1]

parsePositiveDecimal(value) ==
    LET p == parseDecimal(value)
    IN  IF p.err # "nil" THEN p
        ELSE IF p.num <= 0 THEN [err |-> "ErrInvalidValue", num |-> 0, den |-> 1]
        ELSE p

\* the digits of rem/den after the decimal point, n of them: <<digits as a number, remainder>>
RECURSIVE fracDigits(_, _, _, _)
fracDigits(rem, den, n, acc) ==
    IF n = 0 THEN <<acc, rem>>
    ELSE fracDigits((rem * 10) % den, den, n - 1, acc * 10 + ((rem * 10) \div den))

formatDecimal_Truncate(num, den) ==
    Pct(num < 0, Abs(num) \div den, fracDigits(Abs(num) % den, den, metricPrecisionScale, 0)[1])

\* big.Rat.FloatString(metricPrecisionScale) of num/den (den > 0): rounds the last
\* digit to nearest, halves away from zero; the sign is that of num
formatDecimal(num, den) ==
    LET a == Abs(num)
        ip0 == a \div den
        fr == fracDigits(a % den, den, metricPrecisionScale, 0)
        up == 2 * fr[2] >= den
        fp1 == IF up THEN fr[1] + 1 ELSE fr[1]
        ip == IF fp1 = FracUnit THEN ip0 + 1 ELSE ip0
        fp == IF fp1 = FracUnit THEN 0 ELSE fp1
    IN  Pct(num < 0, ip, fp)

calculateReturnPct_ZeroOnError(initialValue, currentValue) ==
    LET i == parsePositiveDecimal(initialValue)
        c == parsePositiveDecimal(currentValue)
    IN  IF i.err # "nil" \/ c.err # "nil" THEN [err |-> "nil", val |-> Pct(FALSE, 0, 0)]
        ELSE [err |-> "nil", val |-> formatDecimal((c.num - i.num) * 100, i.num)]

calculateReturnPct(initialValue, currentValue) ==
    LET i == parsePositiveDecimal(initialValue)
        c == parsePositiveDecimal(currentValue)
    IN  IF i.err # "nil" THEN [err |-> i.err, val |-> Blank]
        ELSE IF c.err # "nil" THEN [err |-> c.err, val |-> Blank]
        ELSE \* both over the same denominator: (c - i) * 100 / i
             [err |-> "nil", val |-> formatDecimal((c.num - i.num) * 100, i.num)]

subtractDecimalStrings_Left(left, right) ==
    IF left.k # "pct" \/ right.k # "pct"
    THEN [err |-> "ErrInvalidValue", val |-> Blank]
    ELSE [err |-> "nil", val |-> left]

\* parseDecimal of both operands (a percentage string parses to its sign, integer
\* part and fractional digits), exact big.Rat difference, formatDecimal
subtractDecimalStrings(left, right) ==
    IF left.k # "pct" \/ right.k # "pct"
    THEN [err |-> "ErrInvalidValue", val |-> Blank]
    ELSE
    LET sl == IF left.neg THEN -1 ELSE 1
        sr == IF right.neg THEN -1 ELSE 1
        dip == sl * left.ip - sr * right.ip
        dfp == sl * left.fp - sr * right.fp         \* in (-2*FracUnit, 2*FracUnit)
        \* carry so that |fp| < FracUnit
        ip1 == IF dfp >= FracUnit THEN dip + 1 ELSE IF dfp <= -FracUnit THEN dip - 1 ELSE dip
        fp1 == IF dfp >= FracUnit THEN dfp - FracUnit
               ELSE IF dfp <= -FracUnit THEN dfp + FracUnit ELSE dfp
        \* give both parts the same sign
        ip2 == IF ip1 > 0 /\ fp1 < 0 THEN ip1 - 1 ELSE IF ip1 < 0 /\ fp1 > 0 THEN ip1 + 1 ELSE ip1
        fp2 == IF ip1 > 0 /\ fp1 < 0 THEN fp1 + FracUnit
               ELSE IF ip1 < 0 /\ fp1 > 0 THEN fp1 - FracUnit ELSE fp1
    IN  [err |-> "nil", val |-> Pct(ip2 < 0 \/ fp2 < 0, Abs(ip2), Abs(fp2))]

----------------------------------------------------------------------------
(* The relational store (migrations) and the persistence gateway *)

EmptyStore == [batches |-> {}, picks |-> {}, checkpoints |-> {}, metrics |-> {}]

\* uuid.New(): the n-th fresh identity of a transaction (rows are never deleted)
NewUUID(st, n) ==
    Cardinality(st.batches) + Cardinality(st.picks)
        + Cardinality(st.checkpoints) + Cardinality(st.metrics) + n

\* a text parameter bound to a column of type numeric: NULL stays NULL, a number
\* keeps its value and scale (there is no negative zero), anything else is refused
IsNumericText(s) == s.k = "dec" \/ s.k = "pct"
ToNumeric(s) ==
    IF s.k = "pct" /\ s.ip = 0 /\ s.fp = 0 THEN Pct(FALSE, 0, 0) ELSE s

BatchStatuses == {"active", "completed", "failed"}
CheckpointStatuses == {checkpointStatusComputed, checkpointStatusSkipped}
FaultPoints == {"none", "begin", "exec", "commit"}
\* seen from the worker every failing transaction is alike: one fault stands for all
WorkerFaults == {"none", "commit"}

isRunDateConflict_Never(st, input) == FALSE

\* the INSERT violates batches_run_date_unique
isRunDateConflict(st, input) == \E b \in st.batches : b.run_date = input.RunDate

CreateBatchWithInitialCheckpoint(st, input, fault) ==
    LET failed(e) == [err |-> e, store |-> st, BatchID |-> 0, CheckpointID |-> 0, Picks |-> <<>>]
        n == Len(input.Picks)
        batchID == NewUUID(st, 1)
        pickID(i) == NewUUID(st, 1 + i)
        checkpointID == NewUUID(st, 2 + n)
        batchRow == [id |-> batchID, run_date |-> input.RunDate,
                     benchmark_symbol |-> input.BenchmarkSymbol,
                     benchmark_initial_price |-> ToNumeric(input.BenchmarkInitialPrice),
                     status |-> input.Status]
        pickRows == {[id |-> pickID(i), batch_id |-> batchID,
                      ticker |-> input.Picks[i].Ticker, action |-> input.Picks[i].Action,
                      initial_price |-> ToNumeric(input.Picks[i].InitialPrice)] : i \in 1..n}
        checkpointRow == [id |-> checkpointID, batch_id |-> batchID,
                          checkpoint_date |-> input.CheckpointDate,
                          status |-> input.CheckpointStatus,
                          benchmark_price |-> ToNumeric(input.BenchmarkPrice),
                          benchmark_return_pct |-> ToNumeric(input.BenchmarkReturnPct)]
        picksOut == [i \in 1..n |-> [ID |-> pickID(i), Ticker |-> input.Picks[i].Ticker,
                                     Action |-> input.Picks[i].Action,
                                     InitialPrice |-> input.Picks[i].InitialPrice]]
    IN  IF fault = "begin" THEN failed("ErrDB")
        ELSE IF isRunDateConflict(st, input) THEN failed("ErrRunDateConflict")
        ELSE IF \/ input.Status \notin BatchStatuses   \* batches_status_check
                \/ ~IsNumericText(input.BenchmarkInitialPrice)
        THEN failed("ErrDB")
        ELSE IF \/ \E i \in 1..n : ~IsNumericText(input.Picks[i].InitialPrice)
                \/ \E i \in 1..n : input.Picks[i].Action \notin {"BUY", "SELL"}
                \/ \E i, j \in 1..n : i # j /\ input.Picks[i].Ticker = input.Picks[j].Ticker
        THEN failed("ErrDB")                           \* picks_batch_ticker_unique
        ELSE IF \/ input.CheckpointStatus \notin CheckpointStatuses
                \/ ~IsNumericText(input.BenchmarkPrice)
                \/ (input.BenchmarkReturnPct # Null /\ ~IsNumericText(input.BenchmarkReturnPct))
        THEN failed("ErrDB")
        ELSE IF fault \in {"exec", "commit"} THEN failed("ErrDB")
        ELSE [err |-> "nil",
              store |-> [st EXCEPT !.batches = @ \cup {batchRow},
                                   !.picks = @ \cup pickRows,
                                   !.checkpoints = @ \cup {checkpointRow}],
              BatchID |-> batchID, CheckpointID |-> checkpointID, Picks |-> picksOut]

\* the rows one CreateCheckpointWithMetrics transaction inserts
CheckpointRowOf(st, input) ==
    [id |-> NewUUID(st, 1), batch_id |-> input.BatchID,
     checkpoint_date |-> input.CheckpointDate, status |-> input.Status,
     benchmark_price |-> ToNumeric(input.BenchmarkPrice),
     benchmark_return_pct |-> ToNumeric(input.BenchmarkReturnPct)]

MetricRowsOf(st, input) ==
    {[id |-> NewUUID(st, 1 + i), checkpoint_id |-> NewUUID(st, 1),
      pick_id |-> input.Metrics[i].PickID,
      current_price |-> ToNumeric(input.Metrics[i].CurrentPrice),
      absolute_return_pct |-> ToNumeric(input.Metrics[i].AbsoluteReturnPct),
      vs_benchmark_pct |-> ToNumeric(input.Metrics[i].VsBenchmarkPct)]
        : i \in 1..Len(input.Metrics)}

isCheckpointConflict_Never(st, input) == FALSE

isCheckpointConflict_SameStatus(st, input) ==
    \E c \in st.checkpoints :
        /\ c.batch_id = input.BatchID /\ c.checkpoint_date = input.CheckpointDate
        /\ c.status = input.Status

\* the INSERT violates checkpoints_batch_date_unique
isCheckpointConflict(st, input) ==
    \E c \in st.checkpoints :
        c.batch_id = input.BatchID /\ c.checkpoint_date = input.CheckpointDate

CreateCheckpointWithMetrics(st, input, fault) ==
    LET failed(e) == [err |-> e, store |-> st, CheckpointID |-> 0]
        n == Len(input.Metrics)
    IN  IF /\ input.Status = "computed"
           /\ (input.BenchmarkPrice = Null \/ input.BenchmarkReturnPct = Null)
        THEN failed("ErrValidation")
        ELSE IF /\ input.Status = "skipped"
                /\ (input.BenchmarkPrice # Null \/ input.BenchmarkReturnPct # Null \/ n > 0)
        THEN failed("ErrValidation")
        ELSE IF fault = "begin" THEN failed("ErrDB")
        ELSE IF isCheckpointConflict(st, input) THEN failed("ErrCheckpointConflict")
        ELSE IF \/ ~\E b \in st.batches : b.id = input.BatchID   \* checkpoints_batch_fk
                \/ input.Status \notin CheckpointStatuses        \* checkpoints_status_check
                \/ (input.BenchmarkPrice # Null /\ ~IsNumericText(input.BenchmarkPrice))
                \/ (input.BenchmarkReturnPct # Null /\ ~IsNumericText(input.BenchmarkReturnPct))
        THEN failed("ErrDB")
        ELSE IF \/ \E i \in 1..n : ~\E p \in st.picks : p.id = input.Metrics[i].PickID
                \/ \E i, j \in 1..n : i # j /\ input.Metrics[i].PickID = input.Metrics[j].PickID
                \/ \E i \in 1..n : \/ ~IsNumericText(input.Metrics[i].CurrentPrice)
                                   \/ ~IsNumericText(input.Metrics[i].AbsoluteReturnPct)
                                   \/ ~IsNumericText(input.Metrics[i].VsBenchmarkPct)
        THEN failed("ErrDB")
        ELSE IF fault \in {"exec", "commit"} THEN failed("ErrDB")
        ELSE [err |-> "nil",
              store |-> [st EXCEPT !.checkpoints = @ \cup {CheckpointRowOf(st, input)},
                                   !.metrics = @ \cup MetricRowsOf(st, input)],
              CheckpointID |-> NewUUID(st, 1)]

UpdateBatchStatus_ChangedRowRequired(st, batchID, status, fault) ==
    IF \/ fault # "none" \/ status \notin BatchStatuses
       \/ ~\E b \in st.batches : b.id = batchID /\ b.status # status
    THEN [err |-> "ErrDB", store |-> st]
    ELSE [err |-> "nil",
          store |-> [st EXCEPT !.batches =
                        {IF b.id = batchID THEN [b EXCEPT !.status = status] ELSE b : b \in @}]]

UpdateBatchStatus(st, batchID, status, fault) ==
    IF fault # "none" \/ status \notin BatchStatuses
    THEN [err |-> "ErrDB", store |-> st]
    ELSE [err |-> "nil",
          store |-> [st EXCEPT !.batches =
                        {IF b.id = batchID THEN [b EXCEPT !.status = status] ELSE b : b \in @}]]

----------------------------------------------------------------------------
(* The market-data provider (environment) *)

\* the latest completed trading session before `today`
LastClosedSession(today) == walkBackPastWeekend(today - 1)

BasePrice(symbol) ==
    CASE symbol = "SPY" -> 9500
      [] symbol = "AAPL" -> 4500
      [] symbol = "MSFT" -> 6000
      [] OTHER -> 12000

Phase(symbol) ==
    CASE symbol = "SPY" -> 0
      [] symbol = "AAPL" -> 1
      [] symbol = "MSFT" -> 3
      [] OTHER -> 4

\* the closing price of `symbol` in session t, in hundredths
ClosePrice(symbol, t) == BasePrice(symbol) + 175 * (((t + Phase(symbol)) % 5) - 2)

Quote(symbol, previousClose, tradingDay) ==
    [Symbol |-> symbol, PreviousClose |-> previousClose, TradingDay |-> tradingDay]

\* what FetchPreviousClose(symbol) can answer at time `today`: an error (after its
\* retries), the quote of the last session, or a quote with a field that is blank
\* or malformed
FetchAnswers(symbol, today) ==
    LET t == LastClosedSession(today)
        close == Dec(ClosePrice(symbol, t))
    IN  {[err |-> "ErrFetch", quote |-> Quote(symbol, Blank, Blank)],
         [err |-> "nil", quote |-> Quote(symbol, close, DateStr(t))],
         [err |-> "nil", quote |-> Quote(symbol, Blank, Blank)],
         [err |-> "nil", quote |-> Quote(symbol, Blank, DateStr(t))],
         [err |-> "nil", quote |-> Quote(symbol, Garbage, DateStr(t))],
         [err |-> "nil", quote |-> Quote(symbol, close, Blank)],
         [err |-> "nil", quote |-> Quote(symbol, close, Garbage)]}

\* a pick fetch: the evaluator uses its error and its previous close only
PickFetchAnswers(symbol, today) ==
    {a \in FetchAnswers(symbol, today) :
        a.err = "nil" => a.quote.TradingDay = DateStr(LastClosedSession(today))}

\* an answer without a previous close (no session: the market-closed condition)
IsBlankAnswer(a) == a.err = "nil" /\ a.quote.PreviousClose = Blank

\* an answer whose previous close is not blank and is no positive decimal
IsBadAnswer(a) ==
    /\ a.err = "nil"
    /\ a.quote.PreviousClose # Blank
    /\ parsePositiveDecimal(a.quote.PreviousClose).err # "nil"

Proceeds_NonError(bench) == bench.err = "nil"

\* the benchmark answers after which the evaluator goes on to fetch the picks
Proceeds(bench) ==
    /\ bench.err = "nil"
    /\ bench.quote.PreviousClose # Blank
    /\ bench.quote.TradingDay.k = "date"

NoAnswers == <<>>

\* no answer yet: the zero value of a result
NoAnswer == [err |-> "none", quote |-> Quote("", Blank, Blank)]

----------------------------------------------------------------------------
(* The Checkpoint Evaluator *)

NoInput ==
    [BatchID |-> 0, CheckpointDate |-> 0, Status |-> "none", BenchmarkPrice |-> Null,
     BenchmarkReturnPct |-> Null, Metrics |-> <<>>]

persistCheckpoint_Overwrite(st, s, checkpointDate, benchmarkPrice, benchmarkReturn, metrics, status, fault) ==
    LET input == [BatchID |-> s.BatchID, CheckpointDate |-> checkpointDate, Status |-> status,
                  BenchmarkPrice |-> benchmarkPrice, BenchmarkReturnPct |-> benchmarkReturn,
                  Metrics |-> metrics]
        old == {c \in st.checkpoints :
                    c.batch_id = s.BatchID /\ c.checkpoint_date = checkpointDate}
        cleared == [st EXCEPT !.checkpoints = @ \ old,
                              !.metrics = {m \in @ : \A c \in old : m.checkpoint_id # c.id}]
        r == CreateCheckpointWithMetrics(cleared, input, fault)
    IN  [err |-> r.err, store |-> IF r.err = "nil" THEN r.store ELSE st, input |-> input,
         storeErr |-> IF old # {} /\ r.err = "nil" THEN "ErrCheckpointConflict" ELSE r.err]

persistCheckpoint_Strict(st, s, checkpointDate, benchmarkPrice, benchmarkReturn, metrics, status, fault) ==
    LET input == [BatchID |-> s.BatchID, CheckpointDate |-> checkpointDate, Status |-> status,
                  BenchmarkPrice |-> benchmarkPrice, BenchmarkReturnPct |-> benchmarkReturn,
                  Metrics |-> metrics]
        r == CreateCheckpointWithMetrics(st, input, fault)
    IN  [err |-> r.err, store |-> r.store, input |-> input, storeErr |-> r.err]

persistCheckpoint_OtherBatch(st, s, checkpointDate, benchmarkPrice, benchmarkReturn, metrics, status, fault) ==
    LET input == [BatchID |-> s.BatchID + 1, CheckpointDate |-> checkpointDate, Status |-> status,
                  BenchmarkPrice |-> benchmarkPrice, BenchmarkReturnPct |-> benchmarkReturn,
                  Metrics |-> metrics]
        r == CreateCheckpointWithMetrics(st, input, fault)
    IN  [err |-> IF r.err = "ErrCheckpointConflict" THEN "nil" ELSE r.err,
         store |-> r.store, input |-> input, storeErr |-> r.err]

persistCheckpoint(st, s, checkpointDate, benchmarkPrice, benchmarkReturn, metrics, status, fault) ==
    LET input == [BatchID |-> s.BatchID, CheckpointDate |-> checkpointDate, Status |-> status,
                  BenchmarkPrice |-> benchmarkPrice, BenchmarkReturnPct |-> benchmarkReturn,
                  Metrics |-> metrics]
        r == CreateCheckpointWithMetrics(st, input, fault)
    IN  [err |-> IF r.err = "ErrCheckpointConflict" THEN "nil" ELSE r.err,
         store |-> r.store, input |-> input, storeErr |-> r.err]

\* the fan-out over the picks' tickers; answers[i] is what the fetch of picks[i] returns
fetchPickQuotes(picks, answers) ==
    LET n == Len(picks)
    IN  IF \E i \in 1..n : answers[i].err # "nil"
        THEN [err |-> "ErrFetch", quotes |-> <<>>, fetched |-> n]
        ELSE [err |-> "nil", quotes |-> [i \in 1..n |-> answers[i].quote], fetched |-> n]

computeMetrics_None(picks, quotes, benchmarkReturn, i) == [err |-> "nil", metrics |-> <<>>]

\* the metrics loop of runDailyCheckpoint over picks 1..n: the first error, or the rows
RECURSIVE computeMetrics(_, _, _, _)
computeMetrics(picks, quotes, benchmarkReturn, i) ==
    IF i > Len(picks) THEN [err |-> "nil", metrics |-> <<>>]
    ELSE LET currentPrice == quotes[i].PreviousClose
             a == calculateReturnPct(picks[i].InitialPrice, currentPrice)
             v == subtractDecimalStrings(a.val, benchmarkReturn)
             rest == computeMetrics(picks, quotes, benchmarkReturn, i + 1)
         IN  IF a.err # "nil" THEN [err |-> a.err, metrics |-> <<>>]
             ELSE IF v.err # "nil" THEN [err |-> v.err, metrics |-> <<>>]
             ELSE IF rest.err # "nil" THEN rest
             ELSE [err |-> "nil",
                   metrics |-> <<[PickID |-> picks[i].PickID, CurrentPrice |-> currentPrice,
                                  AbsoluteReturnPct |-> a.val, VsBenchmarkPct |-> v.val]>>
                               \o rest.metrics]

anyPickBlank_FirstOnly(picks, quotes) == quotes[1].PreviousClose = Blank

\* the first loop of runDailyCheckpoint over the picks: some previous close is blank
anyPickBlank(picks, quotes) ==
    \E i \in 1..Len(picks) : quotes[i].PreviousClose = Blank

runDailyCheckpoint_BlankDayFallback(st, s, scheduledAt, bench, answers, fault) ==
    LET failed(e, fetched) ==
            [err |-> e, store |-> st, input |-> NoInput, storeErr |-> "none",
             pickFetches |-> fetched]
        persisted(r, fetched) ==
            [err |-> r.err, store |-> r.store, input |-> r.input, storeErr |-> r.storeErr,
             pickFetches |-> fetched]
        fallback == previousTradingDayFallback(scheduledAt)
    IN  IF bench.err # "nil" THEN failed(bench.err, 0)
        ELSE IF bench.quote.PreviousClose = Blank
        THEN persisted(persistCheckpoint(st, s, fallback, Null, Null, <<>>,
                                         checkpointStatusSkipped, fault), 0)
        ELSE IF bench.quote.TradingDay = Blank
        THEN persisted(persistCheckpoint(st, s, fallback, Null, Null, <<>>,
                                         checkpointStatusSkipped, fault), 0)
        ELSE IF parseDate(bench.quote.TradingDay).err # "nil"
        THEN failed("ErrInvalidTradingDay", 0)
        ELSE
        LET checkpointDate == parseDate(bench.quote.TradingDay).date
            pq == fetchPickQuotes(s.Picks, answers)
            benchmarkPrice == bench.quote.PreviousClose
            benchmarkReturn == calculateReturnPct(s.BenchmarkInitialPrice, benchmarkPrice)
            m == computeMetrics(s.Picks, pq.quotes, benchmarkReturn.val, 1)
        IN  IF pq.err # "nil" THEN failed(pq.err, pq.fetched)
            ELSE IF anyPickBlank(s.Picks, pq.quotes)
            THEN persisted(persistCheckpoint(st, s, checkpointDate, Null, Null, <<>>,
                                             checkpointStatusSkipped, fault), pq.fetched)
            ELSE IF benchmarkReturn.err # "nil" THEN failed(benchmarkReturn.err, pq.fetched)
            ELSE IF m.err # "nil" THEN failed(m.err, pq.fetched)
            ELSE persisted(persistCheckpoint(st, s, checkpointDate, benchmarkPrice,
                                             benchmarkReturn.val, m.metrics,
                                             checkpointStatusComputed, fault), pq.fetched)

runDailyCheckpoint(st, s, scheduledAt, bench, answers, fault) ==
    LET failed(e, fetched) ==
            [err |-> e, store |-> st, input |-> NoInput, storeErr |-> "none",
             pickFetches |-> fetched]
        persisted(r, fetched) ==
            [err |-> r.err, store |-> r.store, input |-> r.input, storeErr |-> r.storeErr,
             pickFetches |-> fetched]
        fallback == previousTradingDayFallback(scheduledAt)
    IN  IF bench.err # "nil" THEN failed(bench.err, 0)
        ELSE IF bench.quote.PreviousClose = Blank
        THEN persisted(persistCheckpoint(st, s, fallback, Null, Null, <<>>,
                                         checkpointStatusSkipped, fault), 0)
        ELSE IF bench.quote.TradingDay = Blank THEN failed("ErrMissingTradingDay", 0)
        ELSE IF parseDate(bench.quote.TradingDay).err # "nil"
        THEN failed("ErrInvalidTradingDay", 0)
        ELSE
        LET checkpointDate == parseDate(bench.quote.TradingDay).date
            pq == fetchPickQuotes(s.Picks, answers)
            benchmarkPrice == bench.quote.PreviousClose
            benchmarkReturn == calculateReturnPct(s.BenchmarkInitialPrice, benchmarkPrice)
            m == computeMetrics(s.Picks, pq.quotes, benchmarkReturn.val, 1)
        IN  IF pq.err # "nil" THEN failed(pq.err, pq.fetched)
            ELSE IF anyPickBlank(s.Picks, pq.quotes)
            THEN persisted(persistCheckpoint(st, s, checkpointDate, Null, Null, <<>>,
                                             checkpointStatusSkipped, fault), pq.fetched)
            ELSE IF benchmarkReturn.err # "nil" THEN failed(benchmarkReturn.err, pq.fetched)
            ELSE IF m.err # "nil" THEN failed(m.err, pq.fetched)
            ELSE persisted(persistCheckpoint(st, s, checkpointDate, benchmarkPrice,
                                             benchmarkReturn.val, m.metrics,
                                             checkpointStatusComputed, fault), pq.fetched)

----------------------------------------------------------------------------
(* The weekly workflow: persist_batch, then the durable daily_checkpoint_loop *)

NoState ==
    [BatchID |-> 0, RunDate |-> Blank, BenchmarkSymbol |-> defaultBenchmarkSymbol,
     BenchmarkInitialPrice |-> Blank, Picks |-> <<>>]

NoTrace ==
    [op |-> "init", day |-> 0, rerun |-> FALSE, benchClose |-> Null, benchDay |-> Null,
     pickBlank |-> FALSE, pickErr |-> FALSE, pickBad |-> FALSE, pickFetches |-> 0,
     input |-> NoInput, storeErr |-> "none",
     err |-> "nil", slept |-> 0, requests |-> 0, clock |-> 0]

\* the output of snapshot_initial_prices at time `today`: SnapshotPreviousCloses
\* has required a non-blank previous close and trading day of every symbol
ValidSnapshot(today) ==
    [RunDate |-> DateStr(today), BenchmarkSymbol |-> defaultBenchmarkSymbol,
     BenchmarkInitialPrice |-> Dec(ClosePrice(defaultBenchmarkSymbol, LastClosedSession(today))),
     CheckpointDate |-> DateStr(LastClosedSession(today)),
     Picks |-> [i \in 1..RequiredPicks |->
                  [Ticker |-> Tickers[i], Action |-> IF i = 2 THEN "SELL" ELSE "BUY",
                   InitialPrice |-> Dec(ClosePrice(Tickers[i], LastClosedSession(today)))]]]

SnapshotOutputs(today) ==
    LET ok == ValidSnapshot(today)
    IN  {ok,
         [ok EXCEPT !.BenchmarkInitialPrice = Garbage],
         [ok EXCEPT !.BenchmarkInitialPrice = Dec(0)],
         [ok EXCEPT !.CheckpointDate = Garbage],
         [ok EXCEPT !.Picks[2].InitialPrice = Dec(0)],
         [ok EXCEPT !.Picks[RequiredPicks].InitialPrice = Garbage]}

\* steps.PersistBatch: the new store, the returned WeeklyPickState and error
PersistBatchStep(st, input, fault) ==
    LET runDate == parseDate(input.RunDate)
        checkpointDate == parseDate(input.CheckpointDate)
        result == CreateBatchWithInitialCheckpoint(st,
                      [RunDate |-> runDate.date,
                       BenchmarkSymbol |-> input.BenchmarkSymbol,
                       BenchmarkInitialPrice |-> input.BenchmarkInitialPrice,
                       Status |-> "active",
                       Picks |-> input.Picks,
                       CheckpointDate |-> checkpointDate.date,
                       CheckpointStatus |-> checkpointStatusComputed,
                       BenchmarkPrice |-> input.BenchmarkInitialPrice,
                       BenchmarkReturnPct |-> Null], fault)
    IN  IF runDate.err # "nil" THEN [err |-> runDate.err, store |-> st, state |-> NoState]
        ELSE IF checkpointDate.err # "nil"
        THEN [err |-> checkpointDate.err, store |-> st, state |-> NoState]
        ELSE IF result.err # "nil" THEN [err |-> result.err, store |-> st, state |-> NoState]
        ELSE [err |-> "nil", store |-> result.store,
              state |-> [BatchID |-> result.BatchID, RunDate |-> input.RunDate,
                         BenchmarkSymbol |-> input.BenchmarkSymbol,
                         BenchmarkInitialPrice |-> input.BenchmarkInitialPrice,
                         Picks |-> [i \in 1..Len(result.Picks) |->
                                      [PickID |-> result.Picks[i].ID,
                                       Ticker |-> result.Picks[i].Ticker,
                                       Action |-> result.Picks[i].Action,
                                       InitialPrice |-> result.Picks[i].InitialPrice]]]]

\* what the durable context of a suspension does: it is live and SleepFor
\* returns at the target, it is done before the call (ctx.Err() != nil), or
\* SleepFor returns an error
SleepOutcomes == {"ok", "cancelled", "err"}

SleepUntil_AlwaysSleeps(clock, target, outcome) ==
    IF outcome = "cancelled"
    THEN [err |-> "ErrCanceled", now |-> clock, slept |-> 0, requests |-> 0]
    ELSE IF outcome = "err"
    THEN [err |-> "ErrSleep", now |-> clock, slept |-> target - clock, requests |-> 1]
    ELSE [err |-> "nil", now |-> IF target > clock THEN target ELSE clock,
          slept |-> target - clock, requests |-> 1]

\* realSleeper.SleepUntil at time `clock`; `requests` counts the calls of
\* ctx.SleepFor and `slept` is the duration asked for
SleepUntil(clock, target, outcome) ==
    IF target <= clock THEN [err |-> "nil", now |-> clock, slept |-> 0, requests |-> 0]
    ELSE IF outcome = "cancelled"
    THEN [err |-> "ErrCanceled", now |-> clock, slept |-> 0, requests |-> 0]
    ELSE IF outcome = "err"
    THEN [err |-> "ErrSleep", now |-> clock, slept |-> target - clock, requests |-> 1]
    ELSE [err |-> "nil", now |-> target, slept |-> target - clock, requests |-> 1]

firstDay_Resume(reached) == reached

\* runDailyCheckpoints: the day the loop starts at, whatever day an earlier
\* execution of the step had reached
firstDay(reached) == 0

\* runDailyCheckpoints: base.AddDate(0, 0, day)
scheduledAt(runDate, d) == runDate + d

scheduledInstant_UTC(runDate, d) ==
    [date |-> runDate + d, hour |-> dailyCheckpointHour,
     minute |-> dailyCheckpointMinute, location |-> "UTC"]

\* runDailyCheckpoints: the instant base.AddDate(0, 0, d), base being
\* time.Date(runDate, dailyCheckpointHour, dailyCheckpointMinute, 0, 0, location)
scheduledInstant(runDate, d) ==
    [date |-> scheduledAt(runDate, d), hour |-> dailyCheckpointHour,
     minute |-> dailyCheckpointMinute, location |-> homeLocation]

afterSleep_Ignore(d, err) == [pc |-> "cycle", day |-> d, err |-> "none"]

\* runDailyCheckpoints after the suspension of day d returned err
afterSleep(d, err) ==
    IF err # "nil" THEN [pc |-> "returned", day |-> d, err |-> err]
    ELSE [pc |-> "cycle", day |-> d, err |-> "none"]

afterCycle_SkipComplete(d, err) ==
    IF err # "nil" THEN [pc |-> "returned", day |-> d, err |-> err]
    ELSE IF d + 1 < dailyCheckpointDays THEN [pc |-> "sleep", day |-> d + 1, err |-> "none"]
    ELSE [pc |-> "returned", day |-> d + 1, err |-> "nil"]

afterCycle_Early(d, err) ==
    IF err # "nil" THEN [pc |-> "returned", day |-> d, err |-> err]
    ELSE IF d + 2 < dailyCheckpointDays THEN [pc |-> "sleep", day |-> d + 1, err |-> "none"]
    ELSE [pc |-> "complete", day |-> d + 1, err |-> "none"]

\* runDailyCheckpoints after the cycle of day d returned err
afterCycle(d, err) ==
    IF err # "nil" THEN [pc |-> "returned", day |-> d, err |-> err]
    ELSE IF d + 1 < dailyCheckpointDays THEN [pc |-> "sleep", day |-> d + 1, err |-> "none"]
    ELSE [pc |-> "complete", day |-> d + 1, err |-> "none"]

\* an error value by what errors.Is and errors.As find in it: an httpStatusError
\* (status), a net.Error (net), context.Canceled or context.DeadlineExceeded (ctx)
Err(status, net, ctx) == [nil |-> FALSE, status |-> status, net |-> net, ctx |-> ctx]
Nil == [nil |-> TRUE, status |-> 0, net |-> FALSE, ctx |-> "none"]

\* no call of retry.Do is followed
RetryIdle ==
    /\ rPc = "idle"
    /\ rCfg = [MaxAttempts |-> 0, BaseDelay |-> 0, MaxDelay |-> 0, Jitter |-> 0]
    /\ rCtx = "none"
    /\ rAttempt = 0
    /\ rCalls = 0
    /\ rLast = Nil
    /\ rWait = [attempt |-> 0, delay |-> 0, rand |-> 0]
    /\ rRet = [returned |-> FALSE, err |-> Nil]
    /\ rCancel = [at |-> "never", calls |-> 0]

\* no call of calculateReturnPct is followed
PctIdle ==
    /\ pctIn = [initial |-> Blank, current |-> Blank]
    /\ pctOut = [err |-> "none", val |-> Blank]

\* no gateway call has been made and no page has been asked for
NoCall ==
    [op |-> "none", phase |-> "idle", key |-> 0, shape |-> "none", input |-> NoInput,
     k |-> 0, pending |-> EmptyStore, before |-> EmptyStore, err |-> "nil"]
NoPage ==
    [phase |-> "idle", limit |-> 0, cursor |-> Null, seen |-> <<>>, sizes |-> <<>>,
     atStart |-> {}, err |-> "nil"]
NoSnap ==
    [pc |-> "idle", benchmark |-> "", picks |-> <<>>, i |-> 0, result |-> {},
     fetches |-> 0, err |-> "none", output |-> NoState, stepErr |-> "none",
     storeErr |-> "none"]
\* GeneratePicks has not been called
NoGen ==
    [pc |-> "idle", maxAttempts |-> 0, attempt |-> 0, requests |-> 0, seen |-> <<>>,
     lastErr |-> "nil", ret |-> [returned |-> FALSE, err |-> "nil", picks |-> <<>>]]
\* no pair of concurrent cycles
NoRace == [started |-> FALSE, date |-> 0, tx |-> <<>>]

\* no step run is counted
NoReq ==
    [pc |-> "idle", symbols |-> 0, calls |-> 0, attempt |-> 0, requests |-> 0,
     res |-> [nil |-> TRUE, status |-> 0, net |-> FALSE, ctx |-> "none"]]

OtherIdle ==
    /\ gen = NoGen
    /\ race = NoRace
    /\ req = NoReq

GwIdle ==
    /\ gwCall = NoCall
    /\ page = NoPage
    /\ snap = NoSnap

Init ==
    /\ store = EmptyStore
    /\ pc = "persist_batch"
    /\ day = 0
    /\ state = NoState
    /\ now = RunDate
    /\ loopErr = "none"
    /\ last = NoTrace
    /\ statusUpdates = 0
    /\ cyclesOK = 0
    /\ cyclesDone = {}
    /\ executions = 0
    /\ blankDays = 0
    /\ suspensions = <<>>
    /\ fanPc = "idle"
    /\ fanBench = NoAnswer
    /\ fanTasks = <<>>
    /\ fanLaunched = 0
    /\ fanResults = <<>>
    /\ fanQuotes = {}
    /\ fanRet = [err |-> "none", quotes |-> {}]
    /\ RetryIdle
    /\ PctIdle
    /\ GwIdle
    /\ OtherIdle

\* step persist_batch of the weekly workflow
PersistBatch ==
    /\ pc = "persist_batch"
    /\ \E input \in SnapshotOutputs(now), fault \in WorkerFaults :
         LET r == PersistBatchStep(store, input, fault)
         IN  /\ store' = r.store
             /\ state' = r.state
             /\ pc' = IF r.err = "nil" THEN "loop" ELSE "returned"
             /\ loopErr' = IF r.err = "nil" THEN "none" ELSE r.err
             /\ last' = [NoTrace EXCEPT !.op = "persist_batch", !.err = r.err]
    /\ UNCHANGED <<day, now, statusUpdates, cyclesOK, cyclesDone, executions, blankDays,
                   suspensions>>
    /\ UNCHANGED auxVars

\* step daily_checkpoint_loop is entered (the first time, or again after a crash)
DailyCheckpointLoop ==
    /\ pc = "loop"
    /\ LET runDate == parseDate(state.RunDate)
       IN  IF runDate.err # "nil"
           THEN /\ pc' = "returned" /\ loopErr' = runDate.err /\ UNCHANGED day
           ELSE /\ pc' = "sleep" /\ day' = firstDay(day) /\ UNCHANGED loopErr
    /\ executions' = executions + 1
    /\ statusUpdates' = 0
    /\ cyclesOK' = 0
    /\ last' = [NoTrace EXCEPT !.op = "loop"]
    /\ suspensions' = <<>>
    /\ UNCHANGED <<store, state, now, cyclesDone, blankDays>>
    /\ UNCHANGED auxVars

\* the suspension of day `day`
Sleep ==
    /\ pc = "sleep"
    /\ \E outcome \in SleepOutcomes :
         LET r == SleepUntil(now, scheduledAt(parseDate(state.RunDate).date, day), outcome)
             next == afterSleep(day, r.err)
         IN  /\ now' = r.now
             /\ pc' = next.pc
             /\ loopErr' = next.err
             /\ last' = [NoTrace EXCEPT !.op = "sleep", !.day = day, !.err = r.err,
                                        !.slept = r.slept, !.requests = r.requests,
                                        !.clock = now]
    /\ suspensions' = Append(suspensions, scheduledInstant(parseDate(state.RunDate).date, day))
    /\ UNCHANGED <<store, day, state, statusUpdates, cyclesOK, cyclesDone, executions, blankDays>>
    /\ UNCHANGED auxVars

\* the state after runDailyCheckpoint(bench, answers, fault) of day `day` returned
CycleStep(bench, answers, fault) ==
    LET r == runDailyCheckpoint(store, state,
                 scheduledAt(parseDate(state.RunDate).date, day), bench, answers, fault)
        next == afterCycle(day, r.err)
    IN  /\ store' = r.store
        /\ pc' = next.pc
        /\ day' = next.day
        /\ loopErr' = next.err
        /\ cyclesOK' = IF r.err = "nil" THEN cyclesOK + 1 ELSE cyclesOK
        /\ cyclesDone' = IF r.err = "nil" THEN cyclesDone \cup {day} ELSE cyclesDone
        /\ blankDays' = IF IsBlankAnswer(bench) \/ \E i \in 1..Len(answers) : IsBlankAnswer(answers[i])
                        THEN blankDays + 1 ELSE blankDays
        /\ last' = [op |-> "cycle", day |-> day, rerun |-> day \in cyclesDone,
                    benchClose |-> IF bench.err = "nil" THEN bench.quote.PreviousClose ELSE Null,
                    benchDay |-> IF bench.err = "nil" THEN bench.quote.TradingDay ELSE Null,
                    pickBlank |-> \E i \in 1..Len(answers) : IsBlankAnswer(answers[i]),
                    pickErr |-> \E i \in 1..Len(answers) : answers[i].err # "nil",
                    pickBad |-> \E i \in 1..Len(answers) : IsBadAnswer(answers[i]),
                    pickFetches |-> r.pickFetches, input |-> r.input,
                    storeErr |-> r.storeErr, err |-> r.err, slept |-> 0,
                    requests |-> 0, clock |-> 0]

\* the evaluator cycle of day `day`: the provider answers the benchmark fetch and,
\* when the evaluator gets that far, the pick fetches; the store may fail
Cycle ==
    /\ pc = "cycle"
    /\ \E bench \in FetchAnswers(state.BenchmarkSymbol, now) :
         \/ /\ ~Proceeds(bench)
            /\ IsBlankAnswer(bench) => blankDays < MaxBlankDays
            /\ \E fault \in (IF IsBlankAnswer(bench) THEN WorkerFaults ELSE {"none"}) :
                 CycleStep(bench, NoAnswers, fault)
         \/ /\ Proceeds(bench)
            /\ \E a1 \in PickFetchAnswers(state.Picks[1].Ticker, now),
                  a2 \in PickFetchAnswers(state.Picks[2].Ticker, now),
                  a3 \in PickFetchAnswers(state.Picks[3].Ticker, now) :
                 /\ (\E a \in {a1, a2, a3} : IsBlankAnswer(a)) => blankDays < MaxBlankDays
                 /\ \E fault \in (IF \E a \in {a1, a2, a3} : a.err # "nil"
                                  THEN {"none"} ELSE WorkerFaults) :
                      CycleStep(bench, <<a1, a2, a3>>, fault)
    /\ UNCHANGED <<state, now, statusUpdates, executions, suspensions>>
    /\ UNCHANGED auxVars

\* after the last cycle: UpdateBatchStatus(completed) and return
Complete ==
    /\ pc = "complete"
    /\ \E fault \in WorkerFaults :
         LET r == UpdateBatchStatus(store, state.BatchID, batchStatusCompleted, fault)
         IN  /\ store' = r.store
             /\ loopErr' = IF r.err = "nil" THEN "nil" ELSE r.err
             /\ last' = [NoTrace EXCEPT !.op = "complete", !.day = day, !.storeErr = r.err,
                                        !.err = r.err]
    /\ pc' = "returned"
    /\ statusUpdates' = statusUpdates + 1
    /\ UNCHANGED <<day, state, now, cyclesOK, cyclesDone, executions, blankDays,
                   suspensions>>
    /\ UNCHANGED auxVars

\* the worker process dies while the durable step is running and the substrate
\* starts the step again; a death during a suspension is noticed when the
\* suspension is over
Crash ==
    /\ pc \in {"cycle", "complete"}
    /\ executions <= MaxRestarts
    /\ pc' = "loop"
    /\ last' = [NoTrace EXCEPT !.op = "crash", !.day = day]
    /\ UNCHANGED <<store, day, state, now, loopErr, statusUpdates, cyclesOK, cyclesDone,
                   executions, blankDays, suspensions>>
    /\ UNCHANGED auxVars

\* one run of the weekly workflow on a worker that stays up
Next ==
    \/ PersistBatch
    \/ DailyCheckpointLoop
    \/ Sleep
    \/ Cycle
    \/ Complete

Spec == Init /\ [][Next]_vars

\* the same run when the worker goes on: the step that is due is taken (the
\* substrate wakes a suspension up, a call returns)
SpecLive == Init /\ [][Next]_vars /\ WF_vars(Next)

\* the same run on a worker that may die and be restarted
NextRestart ==
    \/ PersistBatch
    \/ DailyCheckpointLoop
    \/ Sleep
    \/ Cycle
    \/ Complete
    \/ Crash

SpecRestart == Init /\ [][NextRestart]_vars

\* the worker dies when UpdateBatchStatus has committed and before the result of
\* the step has reached the substrate; the substrate starts the step again when
\* a worker is back, at once or days later
Redeliver ==
    /\ pc = "returned" /\ last.op = "complete" /\ loopErr = "nil"
    /\ executions <= MaxRestarts
    /\ \E down \in 0..MaxDowntime : now' = now + down
    /\ pc' = "loop"
    /\ loopErr' = "none"
    /\ last' = [NoTrace EXCEPT !.op = "crash", !.day = day]
    /\ UNCHANGED <<store, day, state, statusUpdates, cyclesOK, cyclesDone, executions,
                   blankDays, suspensions>>
    /\ UNCHANGED auxVars

\* the run on a worker that dies at the very end of the step
NextRerun ==
    \/ PersistBatch
    \/ DailyCheckpointLoop
    \/ Sleep
    \/ Cycle
    \/ Complete
    \/ Redeliver

SpecRerun == Init /\ [][NextRerun]_vars

----------------------------------------------------------------------------
(* One evaluator cycle at the grain of its goroutines: the benchmark fetch,   *)
(* the launch loop and the collect loop of fetchPickQuotes, the fetch         *)
(* goroutines, and the rest of runDailyCheckpoint                             *)

FanTickers == <<"AAPL", "MSFT", "NVDA", "AMZN", "TSLA", "META", "GOOG">>

\* the output of snapshot_initial_prices for a batch of n picks
FanSnapshot(today, n) ==
    [ValidSnapshot(today) EXCEPT
        !.Picks = [i \in 1..n |->
                     [Ticker |-> FanTickers[i], Action |-> "BUY",
                      InitialPrice |-> Dec(ClosePrice(FanTickers[i], LastClosedSession(today)))]]]

\* fetchPickQuotes: the distinct tickers of the picks, in the order of the picks
RECURSIVE fanoutTickers(_, _)
fanoutTickers(picks, i) ==
    IF i = 0 THEN <<>>
    ELSE CHOOSE tickers \in
             {IF \E j \in 1..Len(before) : before[j] = picks[i].Ticker
              THEN before
              ELSE Append(before, picks[i].Ticker) :
                  before \in {fanoutTickers(picks, i - 1)}} : TRUE

FanTickerList == fanoutTickers(state.Picks, Len(state.Picks))
FanCount == Len(FanTickerList)

semFree_Unbounded(held) == TRUE

\* sem <- struct{}{} can proceed: the channel `sem` of capacity
\* priceFanoutConcurrency has room, `held` slots being taken
semFree(held) == held < priceFanoutConcurrency

collectStep_PartialMap(quotes, i, answer) ==
    IF answer.err # "nil"
    THEN [returns |-> TRUE, ret |-> [err |-> answer.err, quotes |-> quotes], quotes |-> quotes]
    ELSE [returns |-> FALSE, ret |-> [err |-> "none", quotes |-> {}], quotes |-> quotes \cup {i}]

collectStep_IgnoreError(quotes, i, answer) ==
    [returns |-> FALSE, ret |-> [err |-> "none", quotes |-> {}], quotes |-> quotes \cup {i}]

\* one turn of the collect loop on the result of ticker i: return (nil, res.err),
\* or quotes[res.ticker] = res.quote
collectStep(quotes, i, answer) ==
    IF answer.err # "nil"
    THEN [returns |-> TRUE, ret |-> [err |-> answer.err, quotes |-> {}], quotes |-> quotes]
    ELSE [returns |-> FALSE, ret |-> [err |-> "none", quotes |-> {}], quotes |-> quotes \cup {i}]

SemHolders_NeverReleased ==
    {i \in 1..FanCount : fanTasks[i].st \in {"fetching", "fetched", "sent", "exited"}}

\* the goroutines holding a slot of the semaphore `sem`
SemHolders == {i \in 1..FanCount : fanTasks[i].st \in {"fetching", "fetched", "sent"}}

\* the pick fetches in flight (a fetch with its retries is one call of FetchPreviousClose)
InFlight == {i \in 1..FanCount : fanTasks[i].st = "fetching"}

\* what a pick fetch answers in this cycle: an error (after its retries) or the quote
\* of the last session
FanPickAnswers(symbol, today) ==
    {a \in PickFetchAnswers(symbol, today) : a.err = "nil" => a.quote.PreviousClose.k = "dec"}

\* the cycle of day 1 of a batch of n picks is about to run: persist_batch and the
\* cycle of day 0 (which met the initial checkpoint) are over
InitFanoutOf(counts) ==
    /\ \E n \in counts :
          LET r == PersistBatchStep(EmptyStore, FanSnapshot(RunDate, n), "none")
          IN  /\ store = r.store
              /\ state = r.state
              /\ fanTasks = [i \in 1..n |-> [st |-> "idle", answer |-> NoAnswer]]
    /\ pc = "cycle"
    /\ day = 1
    /\ now = RunDate + 1
    /\ loopErr = "none"
    /\ last = NoTrace
    /\ statusUpdates = 0
    /\ cyclesOK = 1
    /\ cyclesDone = {0}
    /\ executions = 1
    /\ blankDays = 0
    /\ suspensions = <<scheduledInstant(RunDate, 0), scheduledInstant(RunDate, 1)>>
    /\ fanPc = "start"
    /\ fanBench = NoAnswer
    /\ fanLaunched = 0
    /\ fanResults = <<>>
    /\ fanQuotes = {}
    /\ fanRet = [err |-> "none", quotes |-> {}]
    /\ RetryIdle
    /\ PctIdle
    /\ GwIdle
    /\ OtherIdle

InitFanout == InitFanoutOf(0..MaxTickers)

\* runDailyCheckpoint calls FetchPreviousClose for the benchmark symbol
FanBenchIssue ==
    /\ fanPc = "start"
    /\ fanPc' = "bench"
    /\ UNCHANGED <<loopVars, retryVars, pctVars, otherVars, gwVars, fanBench, fanTasks, fanLaunched, fanResults, fanQuotes, fanRet>>

\* the benchmark fetch returns; the checks before fetchPickQuotes
FanBenchReturn ==
    /\ fanPc = "bench"
    /\ \E bench \in FetchAnswers(state.BenchmarkSymbol, now) :
          /\ fanBench' = bench
          /\ fanPc' = IF Proceeds(bench) THEN "launch" ELSE "tail"
    /\ UNCHANGED <<loopVars, retryVars, pctVars, otherVars, gwVars, fanTasks, fanLaunched, fanResults, fanQuotes, fanRet>>

\* the launch loop: take a slot of the semaphore, start the goroutine of the next ticker
FanLaunch ==
    /\ fanPc = "launch"
    /\ fanLaunched < FanCount
    /\ semFree(Cardinality(SemHolders))
    /\ fanTasks' = [fanTasks EXCEPT ![fanLaunched + 1].st = "fetching"]
    /\ fanLaunched' = fanLaunched + 1
    /\ UNCHANGED <<loopVars, retryVars, pctVars, otherVars, gwVars, fanPc, fanBench, fanResults, fanQuotes, fanRet>>

\* the launch loop is over
FanLaunchDone ==
    /\ fanPc = "launch"
    /\ fanLaunched = FanCount
    /\ fanPc' = "collect"
    /\ UNCHANGED <<loopVars, retryVars, pctVars, otherVars, gwVars, fanBench, fanTasks, fanLaunched, fanResults, fanQuotes, fanRet>>

\* a goroutine: FetchPreviousClose(ctx, symbol) returns
FanFetchReturn ==
    /\ \E i \in InFlight :
          \E a \in FanPickAnswers(FanTickerList[i], now) :
              fanTasks' = [fanTasks EXCEPT ![i] = [st |-> "fetched", answer |-> a]]
    /\ UNCHANGED <<loopVars, retryVars, pctVars, otherVars, gwVars, fanPc, fanBench, fanLaunched, fanResults, fanQuotes, fanRet>>

\* a goroutine: results <- result{...}, on a channel of capacity len(tickers)
FanSend ==
    /\ Len(fanResults) < FanCount
    /\ \E i \in 1..FanCount :
          /\ fanTasks[i].st = "fetched"
          /\ fanTasks' = [fanTasks EXCEPT ![i].st = "sent"]
          /\ fanResults' = Append(fanResults, i)
    /\ UNCHANGED <<loopVars, retryVars, pctVars, otherVars, gwVars, fanPc, fanBench, fanLaunched, fanQuotes, fanRet>>

\* a goroutine: the deferred <-sem, and the goroutine ends
FanRelease ==
    /\ \E i \in 1..FanCount :
          /\ fanTasks[i].st = "sent"
          /\ fanTasks' = [fanTasks EXCEPT ![i].st = "exited"]
    /\ UNCHANGED <<loopVars, retryVars, pctVars, otherVars, gwVars, fanPc, fanBench, fanLaunched, fanResults, fanQuotes, fanRet>>

\* the collect loop: res := <-results; an error ends fetchPickQuotes with (nil, err)
FanCollect ==
    /\ fanPc = "collect"
    /\ Cardinality(fanQuotes) < FanCount
    /\ fanResults # <<>>
    /\ LET r == collectStep(fanQuotes, Head(fanResults), fanTasks[Head(fanResults)].answer)
       IN  /\ fanQuotes' = r.quotes
           /\ fanRet' = IF r.returns THEN r.ret ELSE fanRet
           /\ fanPc' = IF r.returns THEN "tail" ELSE fanPc
    /\ fanResults' = Tail(fanResults)
    /\ UNCHANGED <<loopVars, retryVars, pctVars, otherVars, gwVars, fanBench, fanTasks, fanLaunched>>

\* the collect loop is over: fetchPickQuotes returns (quotes, nil)
FanCollectDone ==
    /\ fanPc = "collect"
    /\ Cardinality(fanQuotes) = FanCount
    /\ fanRet' = [err |-> "nil", quotes |-> fanQuotes]
    /\ fanPc' = "tail"
    /\ UNCHANGED <<loopVars, retryVars, pctVars, otherVars, gwVars, fanBench, fanTasks, fanLaunched, fanResults, fanQuotes>>

\* the rest of runDailyCheckpoint, and the loop's reaction to what it returns
FanFinish ==
    /\ fanPc = "tail"
    /\ fanPc' = "done"
    /\ IF ~Proceeds(fanBench)
       THEN \E fault \in (IF IsBlankAnswer(fanBench) THEN WorkerFaults ELSE {"none"}) :
                CycleStep(fanBench, NoAnswers, fault)
       ELSE IF fanRet.err # "nil"
       THEN LET next == afterCycle(day, fanRet.err)
            IN  /\ pc' = next.pc
                /\ day' = next.day
                /\ loopErr' = next.err
                /\ last' = [NoTrace EXCEPT !.op = "cycle", !.day = day,
                                           !.benchClose = fanBench.quote.PreviousClose,
                                           !.benchDay = fanBench.quote.TradingDay,
                                           !.pickErr = TRUE, !.pickFetches = fanLaunched,
                                           !.err = fanRet.err]
                /\ UNCHANGED <<store, cyclesOK, cyclesDone, blankDays>>
       ELSE \E fault \in WorkerFaults :
                CycleStep(fanBench, [i \in 1..FanCount |-> fanTasks[i].answer], fault)
    /\ UNCHANGED <<state, now, statusUpdates, executions, suspensions>>
    /\ UNCHANGED <<fanBench, fanTasks, fanLaunched, fanResults, fanQuotes, fanRet>>
    /\ UNCHANGED <<retryVars, pctVars, otherVars, gwVars>>

NextFanout ==
    \/ FanBenchIssue
    \/ FanBenchReturn
    \/ FanLaunch
    \/ FanLaunchDone
    \/ FanFetchReturn
    \/ FanSend
    \/ FanRelease
    \/ FanCollect
    \/ FanCollectDone
    \/ FanFinish

SpecFanout == InitFanout /\ [][NextFanout]_vars

\* the goroutine of the cycle up to the return of fetchPickQuotes: the benchmark
\* fetch, the launch loop and the collect loop
FanCaller ==
    \/ FanBenchIssue
    \/ FanBenchReturn
    \/ FanLaunch
    \/ FanLaunchDone
    \/ FanCollect
    \/ FanCollectDone

\* the fetch goroutines
FanTask ==
    \/ FanFetchReturn
    \/ FanSend
    \/ FanRelease

\* the batches of the fair specification: no pick, as many distinct tickers as the
\* semaphore has slots, and one more
FanLiveCounts == {0, priceFanoutConcurrency, priceFanoutConcurrency + 1}

\* the cycle up to the return of fetchPickQuotes, and its goroutines after it
NextFanoutLive ==
    \/ FanCaller
    \/ FanTask

\* the fan-out under the scheduling of the Go runtime: the goroutine of the cycle
\* takes its next step when it can, a fetch goroutine that can take a step takes
\* it, and every call of FetchPreviousClose returns
FanFairness == WF_vars(FanCaller) /\ WF_vars(FanTask)

SpecFanoutLive == InitFanoutOf(FanLiveCounts) /\ [][NextFanoutLive]_vars /\ FanFairness

-----------------------------------------------------------------------------
(* calculateReturnPct on its own *)

\* the strings calculateReturnPct is called with: blank, no number, and the
\* decimals -0.01 .. MaxPrice / 100
PriceStrings == {Blank, Garbage} \cup {Dec(n) : n \in -1..MaxPrice}

InitReturnPct ==
    /\ store = EmptyStore
    /\ pc = "persist_batch"
    /\ day = 0
    /\ state = NoState
    /\ now = RunDate
    /\ loopErr = "none"
    /\ last = NoTrace
    /\ statusUpdates = 0
    /\ cyclesOK = 0
    /\ cyclesDone = {}
    /\ executions = 0
    /\ blankDays = 0
    /\ suspensions = <<>>
    /\ fanPc = "idle"
    /\ fanBench = NoAnswer
    /\ fanTasks = <<>>
    /\ fanLaunched = 0
    /\ fanResults = <<>>
    /\ fanQuotes = {}
    /\ fanRet = [err |-> "none", quotes |-> {}]
    /\ RetryIdle
    /\ GwIdle
    /\ OtherIdle
    /\ pctIn \in [initial : PriceStrings, current : PriceStrings]
    /\ pctOut = [err |-> "none", val |-> Blank]

ReturnPct ==
    /\ pctOut.err = "none"
    /\ pctOut' = calculateReturnPct(pctIn.initial, pctIn.current)
    /\ UNCHANGED <<pctIn, loopVars, fanVars, retryVars, gwVars, otherVars>>

NextReturnPct == ReturnPct

SpecReturnPct == InitReturnPct /\ [][NextReturnPct]_vars

-----------------------------------------------------------------------------
(* retry.Do as FetchPreviousClose calls it: durations in milliseconds, the   *)
(* jitter fraction in percent, a draw of rng.Float64() in thousandths        *)

MaxRetryAttempts == 6   \* the largest MaxAttempts of a followed policy

DefaultConfig == [MaxAttempts |-> 3, BaseDelay |-> 500, MaxDelay |-> 5000, Jitter |-> 20]

\* the policy of the client's tests
ZeroDelayConfig == [MaxAttempts |-> 3, BaseDelay |-> 0, MaxDelay |-> 0, Jitter |-> 0]

\* the policies followed: both of the above under every MaxAttempts up to the bound
RetryConfigs ==
    {[c EXCEPT !.MaxAttempts = m] : c \in {DefaultConfig, ZeroDelayConfig},
                                     m \in 0..MaxRetryAttempts}

\* rng.Float64() is in [0, 1)
RandDraws == {0, 500, 999}
RandScale == 1000
PercentScale == 100

HTTPStatuses == {400, 404, 429, 500, 502, 503}

\* what fetchPreviousCloseOnce returns besides nil: a non-2xx status, an error of
\* httpClient.Do (a net.Error that wraps the context's error when the context
\* ended), and errors that are neither (symbol required, JSON decoding)
FetchErrors ==
    {Err(sc, FALSE, "none") : sc \in HTTPStatuses}
        \cup {Err(0, TRUE, c) : c \in {"none", "canceled", "deadline"}}
        \cup {Err(0, FALSE, "none")}

\* the results of fn under a context whose Err() is ctx
FnResults(ctx) == {Nil} \cup {e \in FetchErrors : e.ctx \in {"none", ctx}}

\* ctx.Err() of a context that ended
ctxErr(ctx) == Err(0, FALSE, ctx)

isRetryableError_AnyStatus(err) ==
    IF err.nil THEN FALSE
    ELSE IF err.ctx \in {"canceled", "deadline"} THEN FALSE
    ELSE IF err.status # 0 THEN TRUE
    ELSE err.net

\* alphavantage.isRetryableError
isRetryableError(err) ==
    IF err.nil THEN FALSE
    ELSE IF err.ctx \in {"canceled", "deadline"} THEN FALSE
    ELSE IF err.status # 0 THEN err.status = 429 \/ err.status >= 500
    ELSE err.net

RECURSIVE Pow2(_)
Pow2(n) == IF n = 0 THEN 1 ELSE 2 * Pow2(n - 1)

\* Do: maxAttempts := cfg.MaxAttempts; if maxAttempts < 1 { maxAttempts = 1 }
maxAttemptsOf(cfg) == IF cfg.MaxAttempts < 1 THEN 1 ELSE cfg.MaxAttempts

capDelay(cfg, delay) == IF cfg.MaxDelay > 0 /\ delay > cfg.MaxDelay THEN cfg.MaxDelay ELSE delay

nextDelay_NoCapAfterJitter(cfg, attempt, rand) ==
    IF cfg.BaseDelay <= 0 THEN 0
    ELSE LET a == IF attempt < 1 THEN 1 ELSE attempt
             delay == capDelay(cfg, cfg.BaseDelay * Pow2(a - 1))
         IN  IF cfg.Jitter > 0 /\ delay > 0
             THEN delay + (rand * cfg.Jitter * delay) \div (RandScale * PercentScale)
             ELSE delay

\* retry.nextDelay, rand being the draw of rng.Float64(); the shift
\* cfg.BaseDelay << (attempt - 1) stays far inside 64 bits for the attempts followed
nextDelay(cfg, attempt, rand) ==
    IF cfg.BaseDelay <= 0 THEN 0
    ELSE LET a == IF attempt < 1 THEN 1 ELSE attempt
             delay == capDelay(cfg, cfg.BaseDelay * Pow2(a - 1))
         IN  IF cfg.Jitter > 0 /\ delay > 0
             THEN capDelay(cfg, delay + (rand * cfg.Jitter * delay) \div (RandScale * PercentScale))
             ELSE delay

afterAttempt_RetryAll(cfg, attempt, res, rand) ==
    IF res.nil THEN [pc |-> "done", returns |-> TRUE, attempt |-> attempt, delay |-> -1]
    ELSE IF attempt = maxAttemptsOf(cfg)
    THEN [pc |-> "done", returns |-> TRUE, attempt |-> attempt, delay |-> -1]
    ELSE IF nextDelay(cfg, attempt, rand) > 0
    THEN [pc |-> "wait", returns |-> FALSE, attempt |-> attempt,
          delay |-> nextDelay(cfg, attempt, rand)]
    ELSE [pc |-> "check", returns |-> FALSE, attempt |-> attempt + 1, delay |-> 0]

\* Do after the invocation of fn in attempt `attempt` returned res
afterAttempt(cfg, attempt, res, rand) ==
    IF res.nil THEN [pc |-> "done", returns |-> TRUE, attempt |-> attempt, delay |-> -1]
    ELSE IF attempt = maxAttemptsOf(cfg) \/ ~isRetryableError(res)
    THEN [pc |-> "done", returns |-> TRUE, attempt |-> attempt, delay |-> -1]
    ELSE IF nextDelay(cfg, attempt, rand) > 0
    THEN [pc |-> "wait", returns |-> FALSE, attempt |-> attempt,
          delay |-> nextDelay(cfg, attempt, rand)]
    ELSE [pc |-> "check", returns |-> FALSE, attempt |-> attempt + 1, delay |-> 0]

checkContext_Skip(ctx) == [returns |-> FALSE, err |-> Nil]

\* Do: if err := ctx.Err(); err != nil { return err }
checkContext(ctx) ==
    IF ctx # "none" THEN [returns |-> TRUE, err |-> ctxErr(ctx)]
    ELSE [returns |-> FALSE, err |-> Nil]

\* FetchPreviousClose calls retry.Do under a policy and a context that is live or
\* has ended already
InitRetry ==
    /\ store = EmptyStore
    /\ pc = "persist_batch"
    /\ day = 0
    /\ state = NoState
    /\ now = RunDate
    /\ loopErr = "none"
    /\ last = NoTrace
    /\ statusUpdates = 0
    /\ cyclesOK = 0
    /\ cyclesDone = {}
    /\ executions = 0
    /\ blankDays = 0
    /\ suspensions = <<>>
    /\ fanPc = "idle"
    /\ fanBench = NoAnswer
    /\ fanTasks = <<>>
    /\ fanLaunched = 0
    /\ fanResults = <<>>
    /\ fanQuotes = {}
    /\ fanRet = [err |-> "none", quotes |-> {}]
    /\ rPc = "check"
    /\ rCfg \in RetryConfigs
    /\ rCtx \in {"none", "canceled", "deadline"}
    /\ rAttempt = 1
    /\ rCalls = 0
    /\ rLast = Nil
    /\ rWait = [attempt |-> 0, delay |-> 0, rand |-> 0]
    /\ rRet = [returned |-> FALSE, err |-> Nil]
    /\ rCancel = [at |-> IF rCtx = "none" THEN "never" ELSE "before", calls |-> 0]
    /\ PctIdle
    /\ GwIdle
    /\ OtherIdle

\* the check of the context at the head of an attempt
RetryCheck ==
    /\ rPc = "check"
    /\ LET c == checkContext(rCtx)
       IN  /\ rPc' = IF c.returns THEN "done" ELSE "call"
           /\ rRet' = IF c.returns THEN [returned |-> TRUE, err |-> c.err] ELSE rRet
    /\ UNCHANGED <<rCfg, rCtx, rAttempt, rCalls, rLast, rWait, rCancel>>
    /\ UNCHANGED <<loopVars, fanVars, pctVars, otherVars, gwVars>>

\* the invocation of fn and what Do does with its result
RetryCall ==
    /\ rPc = "call"
    /\ \E res \in FnResults(rCtx) :
         \E rand \in (IF res.nil \/ rCfg.Jitter = 0 THEN {0} ELSE RandDraws) :
           LET next == afterAttempt(rCfg, rAttempt, res, rand)
           IN  /\ rPc' = next.pc
               /\ rAttempt' = next.attempt
               /\ rCalls' = rCalls + 1
               /\ rLast' = res
               /\ rRet' = IF next.returns THEN [returned |-> TRUE, err |-> res] ELSE rRet
               /\ rWait' = IF next.returns THEN rWait
                           ELSE [attempt |-> rAttempt, delay |-> next.delay, rand |-> rand]
    /\ UNCHANGED <<rCfg, rCtx, rCancel>>
    /\ UNCHANGED <<loopVars, fanVars, pctVars, otherVars, gwVars>>

\* retry.sleep: the timer fires, or ctx.Done() is taken
RetryWait ==
    /\ rPc = "wait"
    /\ \E branch \in (IF rCtx = "none" THEN {"timer"} ELSE {"timer", "done"}) :
         IF branch = "timer"
         THEN /\ rPc' = "check"
              /\ rAttempt' = rAttempt + 1
              /\ UNCHANGED rRet
         ELSE /\ rPc' = "done"
              /\ rRet' = [returned |-> TRUE, err |-> ctxErr(rCtx)]
              /\ UNCHANGED rAttempt
    /\ UNCHANGED <<rCfg, rCtx, rCalls, rLast, rWait, rCancel>>
    /\ UNCHANGED <<loopVars, fanVars, pctVars, otherVars, gwVars>>

\* the context of the call ends: cancellation or deadline
RetryCancel ==
    /\ rPc \in {"check", "call", "wait"}
    /\ rCtx = "none"
    /\ rCtx' \in {"canceled", "deadline"}
    /\ rCancel' = [at |-> rPc, calls |-> rCalls]
    /\ UNCHANGED <<rPc, rCfg, rAttempt, rCalls, rLast, rWait, rRet>>
    /\ UNCHANGED <<loopVars, fanVars, pctVars, otherVars, gwVars>>

NextRetry ==
    \/ RetryCheck
    \/ RetryCall
    \/ RetryWait
    \/ RetryCancel

SpecRetry == InitRetry /\ [][NextRetry]_vars

----------------------------------------------------------------------------
(* Clients of the persistence gateway on one store: weekly workflows that     *)
(* persist their batch, and callers of CreateCheckpointWithMetrics and        *)
(* UpdateBatchStatus.  CreateCheckpointWithMetrics is followed statement by   *)
(* statement: `store` holds the committed rows, which is what every other     *)
(* session reads; gwCall.pending holds the rows written inside the open       *)
(* transaction.                                                               *)

\* the Mondays for which a weekly workflow is started (a workflow can be started
\* again for a run date that has its batch)
StoreRunDates == {RunDate, RunDate + DaysPerWeek}

\* the checkpoint inputs a caller builds for a stored batch
CheckpointShapes ==
    {"computed", "computed_no_price", "computed_no_return", "computed_unknown_pick",
     "skipped", "skipped_price", "skipped_return", "skipped_metric"}

\* the picks of batch b were given the identities after the batch's own
ClientMetrics(b) ==
    [i \in 1..RequiredPicks |->
        [PickID |-> b.id + i, CurrentPrice |-> Dec(MaxPrice),
         AbsoluteReturnPct |-> Pct(FALSE, i, 0), VsBenchmarkPct |-> Pct(TRUE, 0, i)]]

CheckpointInput(b, shape) ==
    LET metrics == ClientMetrics(b)
        price == Dec(MaxPrice)
        return == Pct(FALSE, 1, 0)
        base == [BatchID |-> b.id, CheckpointDate |-> b.run_date + 1,
                 Status |-> checkpointStatusComputed, BenchmarkPrice |-> price,
                 BenchmarkReturnPct |-> return, Metrics |-> metrics]
        skipped == [base EXCEPT !.Status = checkpointStatusSkipped, !.BenchmarkPrice = Null,
                                !.BenchmarkReturnPct = Null, !.Metrics = <<>>]
    IN  CASE shape = "computed" -> base
          [] shape = "computed_no_price" -> [base EXCEPT !.BenchmarkPrice = Null]
          [] shape = "computed_no_return" -> [base EXCEPT !.BenchmarkReturnPct = Null]
          [] shape = "computed_unknown_pick" ->
                 [base EXCEPT !.Metrics[RequiredPicks].PickID = 0]
          [] shape = "skipped" -> skipped
          [] shape = "skipped_price" -> [skipped EXCEPT !.BenchmarkPrice = price]
          [] shape = "skipped_return" -> [skipped EXCEPT !.BenchmarkReturnPct = return]
          [] shape = "skipped_metric" -> [skipped EXCEPT !.Metrics = <<metrics[1]>>]

\* the checks of CreateCheckpointWithMetrics that precede s.pool.Begin
validateCheckpoint_Accept(input) == "nil"

validateCheckpoint(input) ==
    IF /\ input.Status = "computed"
       /\ (input.BenchmarkPrice = Null \/ input.BenchmarkReturnPct = Null)
    THEN "ErrValidation"
    ELSE IF /\ input.Status = "skipped"
            /\ \/ input.BenchmarkPrice # Null
               \/ input.BenchmarkReturnPct # Null
               \/ Len(input.Metrics) > 0
    THEN "ErrValidation"
    ELSE "nil"

AddRows(st, rows) ==
    [batches |-> st.batches \cup rows.batches, picks |-> st.picks \cup rows.picks,
     checkpoints |-> st.checkpoints \cup rows.checkpoints,
     metrics |-> st.metrics \cup rows.metrics]

txExec_OnPool(st, pending, rows) == [store |-> AddRows(st, rows), pending |-> pending]

\* tx.Exec: the rows of the statement belong to the transaction until it commits
txExec(st, pending, rows) == [store |-> st, pending |-> AddRows(pending, rows)]

\* the call returns: the deferred tx.Rollback drops what an open transaction wrote
Returned(call, err) == [call EXCEPT !.phase = "returned", !.err = err, !.pending = EmptyStore]

\* no gateway call is in progress
GwReady == gwCall.phase # "open" /\ page.phase = "idle"

GwPersistBatch_ConflictSatisfied ==
    /\ GwReady
    /\ \E runDate \in StoreRunDates, fault \in WorkerFaults :
         LET r == PersistBatchStep(store, ValidSnapshot(runDate), fault)
             err == IF r.err = "ErrRunDateConflict" THEN "nil" ELSE r.err
         IN  /\ store' = r.store
             /\ gwCall' = [NoCall EXCEPT !.op = "persist_batch", !.phase = "returned",
                                         !.key = runDate, !.before = store, !.err = err]
    /\ UNCHANGED <<pc, day, state, now, loopErr, last, statusUpdates, cyclesOK, cyclesDone,
                   executions, blankDays, suspensions, page, snap>>
    /\ UNCHANGED <<fanVars, retryVars, pctVars, otherVars>>

\* a weekly workflow reaches persist_batch with the snapshot of its run date
GwPersistBatch ==
    /\ GwReady
    /\ \E runDate \in StoreRunDates, fault \in WorkerFaults :
         LET r == PersistBatchStep(store, ValidSnapshot(runDate), fault)
         IN  /\ store' = r.store
             /\ gwCall' = [NoCall EXCEPT !.op = "persist_batch", !.phase = "returned",
                                         !.key = runDate, !.before = store, !.err = r.err]
    /\ UNCHANGED <<pc, day, state, now, loopErr, last, statusUpdates, cyclesOK, cyclesDone,
                   executions, blankDays, suspensions, page, snap>>
    /\ UNCHANGED <<fanVars, retryVars, pctVars, otherVars>>

\* CreateCheckpointWithMetrics up to s.pool.Begin
GwCheckpointBegin ==
    /\ GwReady
    /\ \E b \in store.batches, shape \in CheckpointShapes, fault \in BOOLEAN :
         LET input == CheckpointInput(b, shape)
             call == [NoCall EXCEPT !.op = "create_checkpoint", !.key = b.id,
                                    !.shape = shape, !.input = input, !.before = store]
         IN  gwCall' = IF validateCheckpoint(input) # "nil"
                       THEN Returned(call, validateCheckpoint(input))
                       ELSE IF fault THEN Returned(call, "ErrDB")
                       ELSE [call EXCEPT !.phase = "open"]
    /\ UNCHANGED <<loopVars, fanVars, retryVars, pctVars, otherVars, page, snap>>

\* the INSERT INTO checkpoints
GwCheckpointExec ==
    /\ gwCall.phase = "open" /\ gwCall.op = "create_checkpoint" /\ gwCall.k = 0
    /\ \E fault \in BOOLEAN :
         LET input == gwCall.input
             row == CheckpointRowOf(gwCall.before, input)
             r == txExec(store, gwCall.pending,
                         [EmptyStore EXCEPT !.checkpoints = {row}])
         IN  IF isCheckpointConflict(store, input)
             THEN gwCall' = Returned(gwCall, "ErrCheckpointConflict") /\ UNCHANGED store
             ELSE IF \/ fault
                     \/ ~\E b \in store.batches : b.id = input.BatchID
                     \/ input.Status \notin CheckpointStatuses
                     \/ (input.BenchmarkPrice # Null /\ ~IsNumericText(input.BenchmarkPrice))
                     \/ /\ input.BenchmarkReturnPct # Null
                        /\ ~IsNumericText(input.BenchmarkReturnPct)
             THEN gwCall' = Returned(gwCall, "ErrDB") /\ UNCHANGED store
             ELSE /\ gwCall' = [gwCall EXCEPT !.k = 1, !.pending = r.pending]
                  /\ store' = r.store
    /\ UNCHANGED <<pc, day, state, now, loopErr, last, statusUpdates, cyclesOK, cyclesDone,
                   executions, blankDays, suspensions, page, snap>>
    /\ UNCHANGED <<fanVars, retryVars, pctVars, otherVars>>

\* the INSERT INTO pick_checkpoint_metrics of the next metric of the input
GwMetricExec ==
    /\ gwCall.phase = "open" /\ gwCall.op = "create_checkpoint"
    /\ gwCall.k \in 1..Len(gwCall.input.Metrics)
    /\ \E fault \in BOOLEAN :
         LET input == gwCall.input
             metric == input.Metrics[gwCall.k]
             rows == {m \in MetricRowsOf(gwCall.before, input) :
                          m.id = NewUUID(gwCall.before, 1 + gwCall.k)}
             r == txExec(store, gwCall.pending, [EmptyStore EXCEPT !.metrics = rows])
         IN  IF \/ fault
                \/ ~\E p \in store.picks : p.id = metric.PickID
                \/ \E m \in gwCall.pending.metrics : m.pick_id = metric.PickID
                \/ ~IsNumericText(metric.CurrentPrice)
                \/ ~IsNumericText(metric.AbsoluteReturnPct)
                \/ ~IsNumericText(metric.VsBenchmarkPct)
             THEN gwCall' = Returned(gwCall, "ErrDB") /\ UNCHANGED store
             ELSE /\ gwCall' = [gwCall EXCEPT !.k = @ + 1, !.pending = r.pending]
                  /\ store' = r.store
    /\ UNCHANGED <<pc, day, state, now, loopErr, last, statusUpdates, cyclesOK, cyclesDone,
                   executions, blankDays, suspensions, page, snap>>
    /\ UNCHANGED <<fanVars, retryVars, pctVars, otherVars>>

\* tx.Commit
GwCommit ==
    /\ gwCall.phase = "open" /\ gwCall.op = "create_checkpoint"
    /\ gwCall.k = Len(gwCall.input.Metrics) + 1
    /\ \E fault \in BOOLEAN :
         IF fault
         THEN gwCall' = Returned(gwCall, "ErrDB") /\ UNCHANGED store
         ELSE /\ store' = AddRows(store, gwCall.pending)
              /\ gwCall' = Returned(gwCall, "nil")
    /\ UNCHANGED <<pc, day, state, now, loopErr, last, statusUpdates, cyclesOK, cyclesDone,
                   executions, blankDays, suspensions, page, snap>>
    /\ UNCHANGED <<fanVars, retryVars, pctVars, otherVars>>

\* UpdateBatchStatus for a stored batch, or for an identity that no batch has
GwUpdateBatchStatus ==
    /\ GwReady
    /\ \E batchID \in {b.id : b \in store.batches} \cup {0}, status \in BatchStatuses,
          fault \in {"none", "exec"} :
         LET r == UpdateBatchStatus(store, batchID, status, fault)
         IN  /\ store' = r.store
             /\ gwCall' = [NoCall EXCEPT !.op = "update_status", !.phase = "returned",
                                         !.key = batchID, !.shape = status,
                                         !.before = store, !.err = r.err]
    /\ UNCHANGED <<pc, day, state, now, loopErr, last, statusUpdates, cyclesOK, cyclesDone,
                   executions, blankDays, suspensions, page, snap>>
    /\ UNCHANGED <<fanVars, retryVars, pctVars, otherVars>>

NextStore ==
    \/ GwPersistBatch
    \/ GwCheckpointBegin
    \/ GwCheckpointExec
    \/ GwMetricExec
    \/ GwCommit
    \/ GwUpdateBatchStatus

SpecStore == Init /\ [][NextStore]_vars

----------------------------------------------------------------------------
(* The step snapshot_initial_prices: SnapshotPreviousCloses fetch by fetch,    *)
(* the rest of SnapshotInitialPrices, and persist_batch on its output          *)

\* the picks of the generate step: three tickers, a ticker twice, the benchmark
\* among the picks, a blank ticker
SnapshotPickLists ==
    {Tickers, <<Tickers[1], Tickers[1], Tickers[2]>>,
     <<defaultBenchmarkSymbol, Tickers[1], Tickers[2]>>, <<Tickers[1], "", Tickers[2]>>}

requireQuote_Accept(quote) == "nil"

requireQuote(quote) ==
    IF quote.PreviousClose = Blank THEN "ErrMissingPreviousClose"
    ELSE IF quote.TradingDay = Blank THEN "ErrMissingTradingDay"
    ELSE "nil"

\* a return of SnapshotPreviousCloses with an error: the map returned is nil
SnapFailed(err) == [snap EXCEPT !.pc = "returned", !.err = err, !.result = {}]

\* SnapshotInitialPrices up to the benchmark fetch of SnapshotPreviousCloses
SnapStart ==
    /\ snap.pc = "idle"
    /\ \E benchmark \in {defaultBenchmarkSymbol, ""}, picks \in SnapshotPickLists :
         LET call == [snap EXCEPT !.benchmark = benchmark, !.picks = picks]
         IN  snap' = IF benchmark = ""
                     THEN [call EXCEPT !.pc = "returned", !.err = "ErrBenchmarkRequired"]
                     ELSE [call EXCEPT !.pc = "benchmark"]
    /\ UNCHANGED <<loopVars, fanVars, retryVars, pctVars, otherVars, gwCall, page>>

\* one FetchPreviousClose answer, required to be a quote
SnapFetch(symbol, next) ==
    \E a \in FetchAnswers(symbol, now) :
        LET fetched == [snap EXCEPT !.fetches = @ + 1]
        IN  snap' = IF a.err # "nil" THEN [SnapFailed(a.err) EXCEPT !.fetches = @ + 1]
                    ELSE IF requireQuote(a.quote) # "nil"
                    THEN [SnapFailed(requireQuote(a.quote)) EXCEPT !.fetches = @ + 1]
                    ELSE [fetched EXCEPT !.result = @ \cup {a.quote}, !.pc = "picks",
                                         !.i = next]

SnapBenchmark ==
    /\ snap.pc = "benchmark"
    /\ SnapFetch(snap.benchmark, 1)
    /\ UNCHANGED <<loopVars, fanVars, retryVars, pctVars, otherVars, gwCall, page>>

\* one round of the loop over the picks, or the return after the last pick
SnapPick ==
    /\ snap.pc = "picks"
    /\ IF snap.i > Len(snap.picks)
       THEN snap' = [snap EXCEPT !.pc = "returned", !.err = "nil"]
       ELSE LET ticker == snap.picks[snap.i]
            IN  IF ticker = "" THEN snap' = SnapFailed("ErrTickerRequired")
                ELSE IF \E q \in snap.result : q.Symbol = ticker
                THEN snap' = [snap EXCEPT !.i = @ + 1]
                ELSE SnapFetch(ticker, snap.i + 1)
    /\ UNCHANGED <<loopVars, fanVars, retryVars, pctVars, otherVars, gwCall, page>>

\* SnapshotInitialPrices after SnapshotPreviousCloses has returned
SnapshotOutputOf(input, prices) ==
    LET quoteOf(symbol) == CHOOSE q \in prices : q.Symbol = symbol
        missing(symbol) == ~\E q \in prices : q.Symbol = symbol
        failed(e) == [err |-> e, output |-> NoState]
        n == Len(input.picks)
    IN  IF missing(input.benchmark) THEN failed("ErrMissingQuote")
        ELSE IF quoteOf(input.benchmark).PreviousClose = Blank
        THEN failed("ErrMissingPreviousClose")
        ELSE IF quoteOf(input.benchmark).TradingDay = Blank
        THEN failed("ErrMissingTradingDay")
        ELSE IF \E i \in 1..n : missing(input.picks[i]) THEN failed("ErrMissingQuote")
        ELSE IF \E i \in 1..n : quoteOf(input.picks[i]).PreviousClose = Blank
        THEN failed("ErrMissingPreviousClose")
        ELSE [err |-> "nil",
              output |-> [RunDate |-> DateStr(now),
                          BenchmarkSymbol |-> input.benchmark,
                          BenchmarkInitialPrice |-> quoteOf(input.benchmark).PreviousClose,
                          CheckpointDate |-> quoteOf(input.benchmark).TradingDay,
                          Picks |-> [i \in 1..n |->
                                       [Ticker |-> input.picks[i],
                                        Action |-> IF i = 2 THEN "SELL" ELSE "BUY",
                                        InitialPrice |->
                                            quoteOf(input.picks[i]).PreviousClose]]]]

\* the step returns: its error, or its output for persist_batch
SnapOutput ==
    /\ snap.pc = "returned"
    /\ LET r == IF snap.err # "nil" THEN [err |-> snap.err, output |-> NoState]
                ELSE SnapshotOutputOf(snap, snap.result)
       IN  snap' = [snap EXCEPT !.pc = IF r.err = "nil" THEN "output" ELSE "failed",
                                !.stepErr = r.err, !.output = r.output]
    /\ UNCHANGED <<loopVars, fanVars, retryVars, pctVars, otherVars, gwCall, page>>

\* persist_batch runs on the output of the step
SnapPersist ==
    /\ snap.pc = "output"
    /\ \E fault \in WorkerFaults :
         LET r == PersistBatchStep(store, snap.output, fault)
         IN  /\ store' = r.store
             /\ state' = r.state
             /\ snap' = [snap EXCEPT !.pc = "persisted", !.storeErr = r.err]
    /\ UNCHANGED <<pc, day, now, loopErr, last, statusUpdates, cyclesOK, cyclesDone,
                   executions, blankDays, suspensions, gwCall, page>>
    /\ UNCHANGED <<fanVars, retryVars, pctVars, otherVars>>

NextSnapshot ==
    \/ SnapStart
    \/ SnapBenchmark
    \/ SnapPick
    \/ SnapOutput
    \/ SnapPersist

SpecSnapshot == Init /\ [][NextSnapshot]_vars

----------------------------------------------------------------------------
(* GET /batches: parseLimit, parseCursor and ListBatches, and a client that    *)
(* walks through the pages while weekly workflows add batches                  *)

ListRunDates == {RunDate + DaysPerWeek * k : k \in 0..(MaxListWeeks - 1)}

\* the query parameter `limit`: absent, no number, or a number
IntText(n) == [k |-> "int", v |-> n]
LimitValues ==
    {Blank, Garbage, IntText(maxListLimit), IntText(maxListLimit + 1)}
        \cup {IntText(n) : n \in 0..MaxLimit}

parseLimit(value) ==
    IF value = Blank THEN [err |-> "nil", limit |-> defaultListLimit]
    ELSE IF value.k # "int" THEN [err |-> "errInvalidLimit", limit |-> 0]
    ELSE IF value.v < 1 \/ value.v > maxListLimit THEN [err |-> "errInvalidLimit", limit |-> 0]
    ELSE [err |-> "nil", limit |-> value.v]

parseCursor(value) ==
    IF value = Null \/ value = Blank THEN [err |-> "nil", cursor |-> Null]
    ELSE IF parseDate(value).err # "nil" THEN [err |-> "errInvalidCursor", cursor |-> Null]
    ELSE [err |-> "nil", cursor |-> value]

\* ORDER BY run_date DESC
RECURSIVE OrderByRunDateDesc(_)
OrderByRunDateDesc(rows) ==
    IF rows = {} THEN <<>>
    ELSE LET first == CHOOSE b \in rows : \A x \in rows : x.run_date <= b.run_date
         IN  <<first>> \o OrderByRunDateDesc(rows \ {first})

\* a row as the query returns it: run_date::text
BatchOf(b) == [ID |-> b.id, RunDate |-> DateStr(b.run_date), Status |-> b.status]

nextCursorOf_RowAfter(batches, limit) == batches[limit + 1].RunDate

\* last := batches[limit-1].RunDate, of the rows the query returned
nextCursorOf(batches, limit) == batches[limit].RunDate

ListBatches(st, limit, cursor) ==
    LET queryLimit == limit + 1
        selected == {b \in st.batches :
                        cursor # Null => b.run_date < parseDate(cursor).date}   \* $1::date
        ordered == OrderByRunDateDesc(selected)
        rows == SubSeq(ordered, 1, IF Len(ordered) < queryLimit THEN Len(ordered)
                                   ELSE queryLimit)
        batches == [i \in 1..Len(rows) |-> BatchOf(rows[i])]
    IN  IF Len(batches) > limit
        THEN [Batches |-> SubSeq(batches, 1, limit), NextCursor |-> nextCursorOf(batches, limit)]
        ELSE [Batches |-> batches, NextCursor |-> Null]

\* handleBatches for the request (limit, cursor), as a step of the walk `walk`
handleBatches(walk, limitValue, cursorValue) ==
    LET limit == parseLimit(limitValue)
        cursor == parseCursor(cursorValue)
        r == ListBatches(store, limit.limit, cursor.cursor)
    IN  IF limit.err # "nil" THEN [walk EXCEPT !.phase = "rejected", !.err = limit.err]
        ELSE IF cursor.err # "nil" THEN [walk EXCEPT !.phase = "rejected", !.err = cursor.err]
        ELSE [walk EXCEPT
                !.phase = IF r.NextCursor = Null THEN "done" ELSE "open",
                !.limit = limit.limit,
                !.cursor = r.NextCursor,
                !.seen = @ \o [i \in 1..Len(r.Batches) |-> parseDate(r.Batches[i].RunDate).date],
                !.sizes = Append(@, Len(r.Batches))]

\* a weekly workflow persists the batch of its run date
PageCreateBatch ==
    /\ \E runDate \in ListRunDates :
         store' = PersistBatchStep(store, ValidSnapshot(runDate), "none").store
    /\ UNCHANGED <<pc, day, state, now, loopErr, last, statusUpdates, cyclesOK, cyclesDone,
                   executions, blankDays, suspensions, gwCall, page, snap>>
    /\ UNCHANGED <<fanVars, retryVars, pctVars, otherVars>>

\* a client asks for the first page
PageFirst ==
    /\ page.phase # "open"
    /\ \E limitValue \in LimitValues :
         page' = handleBatches([NoPage EXCEPT !.atStart = {b.run_date : b \in store.batches}],
                               limitValue, Null)
    /\ UNCHANGED <<loopVars, fanVars, retryVars, pctVars, otherVars, gwCall, snap>>

\* the client asks for the next page with the cursor of the page before
PageNext ==
    /\ page.phase = "open"
    /\ page' = handleBatches(page, IntText(page.limit), page.cursor)
    /\ UNCHANGED <<loopVars, fanVars, retryVars, pctVars, otherVars, gwCall, snap>>

NextPaging ==
    \/ PageCreateBatch
    \/ PageFirst
    \/ PageNext

SpecPaging == Init /\ [][NextPaging]_vars

----------------------------------------------------------------------------
(* GeneratePicks of the OpenAI client: one request per attempt, the content    *)
(* parsed and validated                                                        *)

\* tickerPattern ^[A-Z]{1,5}$ on the symbols of the model
MatchesTickerPattern(ticker) == ticker \in {"AAPL", "MSFT", "NVDA", "TSLA", "SPY"}

GenPick(ticker, action, reasoning) ==
    [Ticker |-> ticker, Action |-> action, Reasoning |-> reasoning]

\* what the model answers: content that is or is not one JSON array of picks
GenContents ==
    LET a == GenPick("AAPL", "BUY", "r")
        b == GenPick("MSFT", "SELL", "r")
        c == GenPick("NVDA", "BUY", "r")
        d == GenPick("TSLA", "SELL", "r")
        json(picks) == [json |-> "array", picks |-> picks]
    IN  {json(<<a, b, c>>), json(<<c, a, d>>), json(<<>>), json(<<a, b>>),
         json(<<a, b, c, d>>), json(<<a, b, a>>),
         json(<<a, GenPick("msft", "SELL", "r"), c>>),
         json(<<a, b, GenPick("NVDA", "HOLD", "r")>>),
         json(<<a, b, GenPick("NVDA", "BUY", "")>>),
         [json |-> "text", picks |-> <<>>],
         [json |-> "array and more", picks |-> <<a, b, c>>]}

\* c.request: the content, or the error of the request after its own retries
GenAnswers ==
    {[err |-> "nil", content |-> c] : c \in GenContents}
        \cup {[err |-> "ErrRequest", content |-> [json |-> "text", picks |-> <<>>]]}

validatePicks_CountOnly(picks) ==
    IF Len(picks) # RequiredPicks THEN "ErrInvalidOutput" ELSE "nil"

RECURSIVE validateFrom(_, _, _)
validateFrom(picks, i, seen) ==
    IF i > Len(picks) THEN "nil"
    ELSE IF ~MatchesTickerPattern(picks[i].Ticker) THEN "ErrInvalidOutput"
    ELSE IF picks[i].Ticker \in seen THEN "ErrInvalidOutput"
    ELSE IF picks[i].Action # "BUY" /\ picks[i].Action # "SELL" THEN "ErrInvalidOutput"
    ELSE IF picks[i].Reasoning = "" THEN "ErrInvalidOutput"
    ELSE validateFrom(picks, i + 1, seen \cup {picks[i].Ticker})

validatePicks(picks) ==
    IF Len(picks) # RequiredPicks THEN "ErrInvalidOutput" ELSE validateFrom(picks, 1, {})

parseAndValidate(content) ==
    IF content.json # "array" THEN [err |-> "ErrInvalidOutput", picks |-> <<>>]
    ELSE IF validatePicks(content.picks) # "nil"
    THEN [err |-> validatePicks(content.picks), picks |-> <<>>]
    ELSE [err |-> "nil", picks |-> content.picks]

\* NewClient with or without WithMaxAttempts(attempts)
maxAttemptsWith(attempts) ==
    LET configured == IF attempts > 0 THEN attempts ELSE defaultMaxAttempts
    IN  IF configured < 1 THEN 1 ELSE configured

GenReturn(call, err, picks) ==
    [call EXCEPT !.pc = "returned", !.ret = [returned |-> TRUE, err |-> err, picks |-> picks]]

\* GeneratePicks is called on a client
GenStart ==
    /\ gen.pc = "idle"
    /\ \E attempts \in -1..MaxGenAttempts, hasKey \in BOOLEAN :
         LET call == [gen EXCEPT !.maxAttempts = maxAttemptsWith(attempts), !.attempt = 1]
         IN  gen' = IF ~hasKey THEN GenReturn(call, "ErrAPIKeyRequired", <<>>)
                    ELSE [call EXCEPT !.pc = "loop"]
    /\ UNCHANGED <<loopVars, fanVars, retryVars, pctVars, gwVars, race, req>>

\* one round of the loop, and the return that follows the last round
GenAttempt ==
    /\ gen.pc = "loop" /\ gen.attempt <= gen.maxAttempts
    /\ \E answer \in GenAnswers :
         LET r == parseAndValidate(answer.content)
             outcome == IF answer.err # "nil" THEN answer.err ELSE r.err
             call == [gen EXCEPT !.requests = @ + 1, !.seen = Append(@, [err |-> outcome, content |-> answer.content])]
         IN  gen' = IF answer.err # "nil" THEN GenReturn(call, answer.err, <<>>)
                    ELSE IF r.err = "nil" THEN GenReturn(call, "nil", r.picks)
                    ELSE IF gen.attempt + 1 <= gen.maxAttempts
                    THEN [call EXCEPT !.attempt = @ + 1, !.lastErr = r.err]
                    ELSE GenReturn([call EXCEPT !.attempt = @ + 1, !.lastErr = r.err],
                                   r.err, <<>>)
    /\ UNCHANGED <<loopVars, fanVars, retryVars, pctVars, gwVars, race, req>>

NextGenerate ==
    \/ GenStart
    \/ GenAttempt

SpecGenerate == Init /\ [][NextGenerate]_vars

----------------------------------------------------------------------------
(* Two evaluator cycles of one batch (a retried or duplicated run) reach       *)
(* persistCheckpoint for the same checkpoint date at the same time.  Each is   *)
(* one CreateCheckpointWithMetrics transaction, followed statement by          *)
(* statement: `store` holds the committed rows, race.tx[c].pending the rows of *)
(* the open transaction of cycle c.                                            *)

RaceCycles == {1, 2}

\* what a cycle has to persist: metrics for every pick, or a skipped checkpoint
RaceShapes == {checkpointStatusComputed, checkpointStatusSkipped}

\* the checkpoint cycle c hands to the store; the two cycles may have fetched
\* different prices
RaceInput(s, date, c, shape) ==
    IF shape = checkpointStatusSkipped
    THEN [BatchID |-> s.BatchID, CheckpointDate |-> date, Status |-> shape,
          BenchmarkPrice |-> Null, BenchmarkReturnPct |-> Null, Metrics |-> <<>>]
    ELSE [BatchID |-> s.BatchID, CheckpointDate |-> date, Status |-> shape,
          BenchmarkPrice |-> Dec(MaxPrice - c), BenchmarkReturnPct |-> Pct(FALSE, c, 0),
          Metrics |-> [i \in 1..Len(s.Picks) |->
                         [PickID |-> s.Picks[i].PickID, CurrentPrice |-> Dec(MaxPrice - c),
                          AbsoluteReturnPct |-> Pct(FALSE, i, c),
                          VsBenchmarkPct |-> Pct(TRUE, c, i)]]]

\* the rows of the transaction t: uuid.New() gives every row its own identity
RaceCheckpointRow(t) == [CheckpointRowOf(EmptyStore, t.input) EXCEPT !.id = t.id]

RaceMetricRow(t, i) ==
    [id |-> t.id + i, checkpoint_id |-> t.id, pick_id |-> t.input.Metrics[i].PickID,
     current_price |-> ToNumeric(t.input.Metrics[i].CurrentPrice),
     absolute_return_pct |-> ToNumeric(t.input.Metrics[i].AbsoluteReturnPct),
     vs_benchmark_pct |-> ToNumeric(t.input.Metrics[i].VsBenchmarkPct)]

\* persistCheckpoint returns: the deferred tx.Rollback drops the rows of an open
\* transaction, and ErrCheckpointConflict becomes success
RaceReturn(t, storeErr) ==
    [t EXCEPT !.pc = "returned", !.pending = EmptyStore, !.storeErr = storeErr,
              !.err = IF storeErr = "ErrCheckpointConflict" THEN "nil" ELSE storeErr]

\* checkpoints_batch_date_unique while another transaction is open: the INSERT
\* waits for a transaction that has inserted the same (batch_id, checkpoint_date)
\* and has neither committed nor rolled back
RaceWaits(c) ==
    \E o \in RaceCycles \ {c} :
        /\ race.tx[o].pc \in {"metrics", "commit"}
        /\ isCheckpointConflict(race.tx[o].pending, race.tx[c].input)

\* persist_batch has stored the batch; both cycles have fetched and computed
RaceStart ==
    /\ ~race.started
    /\ \E s1 \in RaceShapes, s2 \in RaceShapes, d \in 1..DaysPerWeek :
         LET r == PersistBatchStep(store, ValidSnapshot(RunDate), "none")
             shape == <<s1, s2>>
             date == LastClosedSession(RunDate + d)
         IN  /\ date > LastClosedSession(RunDate)
             /\ store' = r.store
             /\ state' = r.state
             /\ race' = [started |-> TRUE, date |-> date,
                         tx |-> [c \in RaceCycles |->
                                   [pc |-> "begin", k |-> 0, pending |-> EmptyStore,
                                    input |-> RaceInput(r.state, date, c, shape[c]),
                                    id |-> NewUUID(r.store, 1 + (c - 1) * (RequiredPicks + 1)),
                                    err |-> "none", storeErr |-> "none"]]]
    /\ UNCHANGED <<pc, day, now, loopErr, last, statusUpdates, cyclesOK, cyclesDone,
                   executions, blankDays, suspensions>>
    /\ UNCHANGED <<fanVars, retryVars, pctVars, gwVars, gen, req>>

\* CreateCheckpointWithMetrics up to s.pool.Begin
RaceBegin ==
    /\ \E c \in RaceCycles :
         /\ race.started /\ race.tx[c].pc = "begin"
         /\ race' = [race EXCEPT !.tx[c] =
                        IF validateCheckpoint(@.input) # "nil"
                        THEN RaceReturn(@, validateCheckpoint(@.input))
                        ELSE [@ EXCEPT !.pc = "insert"]]
    /\ UNCHANGED <<loopVars, fanVars, retryVars, pctVars, gwVars, gen, req>>

\* the INSERT INTO checkpoints
RaceInsert ==
    /\ \E c \in RaceCycles :
         /\ race.started /\ race.tx[c].pc = "insert"
         /\ ~RaceWaits(c)
         /\ LET t == race.tx[c]
                r == txExec(store, t.pending,
                            [EmptyStore EXCEPT !.checkpoints = {RaceCheckpointRow(t)}])
            IN  IF isCheckpointConflict(store, t.input)
                THEN /\ race' = [race EXCEPT !.tx[c] = RaceReturn(t, "ErrCheckpointConflict")]
                     /\ UNCHANGED store
                ELSE /\ race' = [race EXCEPT !.tx[c] =
                                    [t EXCEPT !.pending = r.pending, !.k = 1,
                                              !.pc = IF Len(t.input.Metrics) = 0
                                                     THEN "commit" ELSE "metrics"]]
                     /\ store' = r.store
    /\ UNCHANGED <<pc, day, state, now, loopErr, last, statusUpdates, cyclesOK, cyclesDone,
                   executions, blankDays, suspensions>>
    /\ UNCHANGED <<fanVars, retryVars, pctVars, gwVars, gen, req>>

\* the INSERT INTO pick_checkpoint_metrics of the next metric
RaceMetric ==
    /\ \E c \in RaceCycles :
         /\ race.started /\ race.tx[c].pc = "metrics"
         /\ LET t == race.tx[c]
                r == txExec(store, t.pending,
                            [EmptyStore EXCEPT !.metrics = {RaceMetricRow(t, t.k)}])
            IN  /\ race' = [race EXCEPT !.tx[c] =
                               [t EXCEPT !.pending = r.pending, !.k = @ + 1,
                                         !.pc = IF t.k = Len(t.input.Metrics)
                                                THEN "commit" ELSE "metrics"]]
                /\ store' = r.store
    /\ UNCHANGED <<pc, day, state, now, loopErr, last, statusUpdates, cyclesOK, cyclesDone,
                   executions, blankDays, suspensions>>
    /\ UNCHANGED <<fanVars, retryVars, pctVars, gwVars, gen, req>>

\* tx.Commit, which may fail
RaceCommit ==
    /\ \E c \in RaceCycles, fault \in BOOLEAN :
         /\ race.started /\ race.tx[c].pc = "commit"
         /\ IF fault
            THEN /\ race' = [race EXCEPT !.tx[c] = RaceReturn(@, "ErrDB")]
                 /\ UNCHANGED store
            ELSE /\ store' = AddRows(store, race.tx[c].pending)
                 /\ race' = [race EXCEPT !.tx[c] = RaceReturn(@, "nil")]
    /\ UNCHANGED <<pc, day, state, now, loopErr, last, statusUpdates, cyclesOK, cyclesDone,
                   executions, blankDays, suspensions>>
    /\ UNCHANGED <<fanVars, retryVars, pctVars, gwVars, gen, req>>

NextRace ==
    \/ RaceStart
    \/ RaceBegin
    \/ RaceInsert
    \/ RaceMetric
    \/ RaceCommit

SpecRace == Init /\ [][NextRace]_vars

----------------------------------------------------------------------------
(* The requests one run of the rate-limited step snapshot_initial_prices sends *)
(* to the provider: SnapshotPreviousCloses calls FetchPreviousClose symbol by  *)
(* symbol, and every call runs fetchPreviousCloseOnce under retry.Do with the  *)
(* client's policy, retry.DefaultConfig().  A daily cycle makes the same       *)
(* calls, the picks' ones side by side.                                        *)

\* the distinct symbols of a batch of RequiredPicks picks: the benchmark and the
\* picks' tickers, of which two may be the same
StepSymbolCounts == {RequiredPicks, 1 + RequiredPicks}

\* the step run starts with the fetch of the benchmark
ReqStart ==
    /\ req.pc = "idle"
    /\ \E n \in StepSymbolCounts :
         req' = [NoReq EXCEPT !.pc = "call", !.symbols = n, !.calls = 1, !.attempt = 1]
    /\ UNCHANGED <<loopVars, fanVars, retryVars, pctVars, gwVars, gen, race>>

\* one invocation of fetchPreviousCloseOnce, which sends one request, and what
\* retry.Do and SnapshotPreviousCloses do with its result
ReqAttempt ==
    /\ req.pc = "call"
    /\ \E res \in FnResults("none"), rand \in RandDraws :
         LET a == afterAttempt(DefaultConfig, req.attempt, res, rand)
             sent == [req EXCEPT !.requests = @ + 1, !.res = res]
         IN  req' = IF ~a.returns THEN [sent EXCEPT !.attempt = @ + 1]
                    ELSE IF ~res.nil \/ req.calls = req.symbols
                    THEN [sent EXCEPT !.pc = "returned"]
                    ELSE [sent EXCEPT !.calls = @ + 1, !.attempt = 1]
    /\ UNCHANGED <<loopVars, fanVars, retryVars, pctVars, gwVars, gen, race>>

NextRequests ==
    \/ ReqStart
    \/ ReqAttempt

SpecRequests == Init /\ [][NextRequests]_vars

----------------------------------------------------------------------------
(* Properties of the Daily Scheduling Loop and the Checkpoint Evaluator *)

CheckpointsOf(st, batchID) == {c \in st.checkpoints : c.batch_id = batchID}
MetricsOf(st, checkpointID) == {m \in st.metrics : m.checkpoint_id = checkpointID}
PicksOf(st, batchID) == {p \in st.picks : p.batch_id = batchID}
CheckpointAt(st, batchID, date) ==
    {c \in st.checkpoints : c.batch_id = batchID /\ c.checkpoint_date = date}

\* the calendar day the cycle traced in `last` was scheduled for
LastScheduledDay == scheduledAt(parseDate(state.RunDate).date, last.day)

(* C1: every evaluator cycle of the loop that returns success has stored a     *)
(* checkpoint of its own for the batch (one per scheduled calendar day), and   *)
(* the date of that checkpoint is the trading day of the benchmark quote the   *)
(* cycle fetched.                                                              *)
C1_OneCheckpointPerCycle ==
    [][(last'.op = "cycle" /\ last'.err = "nil")
          => \E c \in CheckpointsOf(store', state.BatchID) \ store.checkpoints :
                DateStr(c.checkpoint_date) = last'.benchDay]_vars

(* C2: creating a checkpoint a second time for the same (batch, checkpoint     *)
(* date) fails with ErrCheckpointConflict (whatever else the second input      *)
(* holds, and unless the transaction cannot even begin), leaves the store as   *)
(* it was, and exactly one checkpoint is stored for the pair.                  *)
C2_Dates == (RunDate - 3) .. (RunDate + dailyCheckpointDays)

C2_Shapes ==
    {[Status |-> checkpointStatusSkipped, BenchmarkPrice |-> Null, BenchmarkReturnPct |-> Null,
      Metrics |-> <<>>],
     [Status |-> checkpointStatusComputed, BenchmarkPrice |-> Dec(9500),
      BenchmarkReturnPct |-> Pct(TRUE, 1, 25000000), Metrics |-> <<>>],
     [Status |-> checkpointStatusComputed, BenchmarkPrice |-> Dec(9675),
      BenchmarkReturnPct |-> Pct(FALSE, 0, 0),
      Metrics |-> [i \in 1..Len(state.Picks) |->
                     [PickID |-> state.Picks[i].PickID, CurrentPrice |-> Dec(4500 + i),
                      AbsoluteReturnPct |-> Pct(FALSE, i, 0),
                      VsBenchmarkPct |-> Pct(FALSE, i, 0)]]]}

C2_Input(date, shape) ==
    [BatchID |-> state.BatchID, CheckpointDate |-> date, Status |-> shape.Status,
     BenchmarkPrice |-> shape.BenchmarkPrice, BenchmarkReturnPct |-> shape.BenchmarkReturnPct,
     Metrics |-> shape.Metrics]

C2_DuplicateCreateConflicts ==
    \A date \in C2_Dates, shape1 \in C2_Shapes, shape2 \in C2_Shapes, fault \in FaultPoints :
        LET r1 == CreateCheckpointWithMetrics(store, C2_Input(date, shape1), "none")
            r2 == CreateCheckpointWithMetrics(r1.store, C2_Input(date, shape2), fault)
        IN  r1.err \in {"nil", "ErrCheckpointConflict"}
                => /\ r2.store = r1.store
                   /\ Cardinality(CheckpointAt(r2.store, state.BatchID, date)) = 1
                   /\ r2.err # "nil"
                   /\ fault # "begin" => r2.err = "ErrCheckpointConflict"

\* the loop has itself created a duplicate, and a first creation is still possible
C2_Witness ==
    /\ last.op = "cycle"
    /\ last.storeErr = "ErrCheckpointConflict"
    /\ Cardinality(CheckpointAt(store, last.input.BatchID, last.input.CheckpointDate)) = 1
    /\ \E date \in C2_Dates, shape \in C2_Shapes :
          /\ shape.Metrics # <<>>
          /\ CreateCheckpointWithMetrics(store, C2_Input(date, shape), "none").err = "nil"

(* C3: a stored checkpoint is never mutated: every step (a cycle, a cycle      *)
(* executed again after a restart, the completion) keeps every stored          *)
(* checkpoint row as it is, keeps it the only row of its (batch, checkpoint    *)
(* date), and keeps the set and the values of its metrics.                     *)
C3_CheckpointsNeverMutated ==
    [][\A c \in store.checkpoints :
          /\ c \in store'.checkpoints
          /\ CheckpointAt(store', c.batch_id, c.checkpoint_date) = {c}
          /\ MetricsOf(store', c.id) = MetricsOf(store, c.id)]_vars

\* a cycle executed again after a restart tried to write a different status
\* for a date that has a checkpoint
C3_Witness ==
    /\ last.op = "cycle"
    /\ last.rerun
    /\ last.storeErr = "ErrCheckpointConflict"
    /\ \E c \in CheckpointAt(store, last.input.BatchID, last.input.CheckpointDate) :
          /\ c.status # last.input.Status
          /\ MetricsOf(store, c.id) # {}

(* C4: when the store answers the checkpoint write of a cycle with             *)
(* ErrCheckpointConflict the cycle returns success and the loop goes on to the *)
(* next day (or to completion after the last day); when the store answers with *)
(* any other error the cycle returns that error.                               *)
C4_ConflictIsSuccess ==
    (last.op = "cycle" /\ last.storeErr \notin {"none", "nil"})
        => IF last.storeErr = "ErrCheckpointConflict"
           THEN /\ last.err = "nil"
                /\ loopErr = "none"
                /\ day = last.day + 1
                /\ pc = IF day < dailyCheckpointDays THEN "sleep" ELSE "complete"
           ELSE /\ last.err = last.storeErr
                /\ loopErr = last.storeErr
                /\ pc = "returned"

C4_Witness ==
    /\ last.op = "cycle"
    /\ last.storeErr = "ErrCheckpointConflict"
    /\ last.day > 0
    /\ pc = "sleep"

(* C5: in every reachable store state every checkpoint with status computed    *)
(* has benchmark price and benchmark return and a metric for every pick of its *)
(* batch, and every checkpoint with status skipped has neither benchmark field *)
(* and no metrics; the checkpoint written with the batch included.             *)
C5_WellFormedComputed(c) ==
    /\ c.benchmark_price # Null
    /\ c.benchmark_return_pct # Null
    /\ \A p \in PicksOf(store, c.batch_id) :
          Cardinality({m \in MetricsOf(store, c.id) : m.pick_id = p.id}) = 1
    /\ \A m \in MetricsOf(store, c.id) : \E p \in PicksOf(store, c.batch_id) : m.pick_id = p.id

C5_WellFormedSkipped(c) ==
    /\ c.benchmark_price = Null
    /\ c.benchmark_return_pct = Null
    /\ MetricsOf(store, c.id) = {}

C5_EveryCheckpointWellFormed ==
    \A c \in store.checkpoints :
        /\ c.status \in CheckpointStatuses
        /\ c.status = checkpointStatusComputed => C5_WellFormedComputed(c)
        /\ c.status = checkpointStatusSkipped => C5_WellFormedSkipped(c)

\* the baseline snapshot: the price the batch started from, no return, no metrics
C5_IsBaseline(c) ==
    /\ c.status = checkpointStatusComputed
    /\ c.benchmark_return_pct = Null
    /\ MetricsOf(store, c.id) = {}
    /\ \E b \in store.batches : b.id = c.batch_id /\ c.benchmark_price = b.benchmark_initial_price

(* C5, as the code has it: every batch has exactly one baseline checkpoint     *)
(* (status computed, the initial benchmark price, no return, no metrics); every*)
(* other computed checkpoint has both benchmark fields and one metric for      *)
(* every pick of its batch; every skipped one has no benchmark field and no    *)
(* metrics.                                                                    *)
C5_WellFormedButBaseline ==
    /\ \A c \in store.checkpoints :
          /\ c.status \in CheckpointStatuses
          /\ c.status = checkpointStatusComputed => (C5_WellFormedComputed(c) \/ C5_IsBaseline(c))
          /\ c.status = checkpointStatusSkipped => C5_WellFormedSkipped(c)
    /\ \A b \in store.batches :
          Cardinality({c \in CheckpointsOf(store, b.id) : C5_IsBaseline(c)}) = 1

C5_Witness ==
    \E c1, c2, c3 \in CheckpointsOf(store, state.BatchID) :
        /\ C5_IsBaseline(c1)
        /\ c2.status = checkpointStatusComputed /\ C5_WellFormedComputed(c2)
        /\ c3.status = checkpointStatusSkipped

(* C6: within one run of the loop the batch status is set to completed at most *)
(* once, only after dailyCheckpointDays cycles of that run have returned       *)
(* success, and a run that returns success has set it exactly once.            *)
C6_CompletedOnceAfterLastCycle ==
    /\ statusUpdates <= 1
    /\ statusUpdates = 1 => (cyclesOK = dailyCheckpointDays /\ pc = "returned")
    /\ cyclesOK <= dailyCheckpointDays
    /\ \A b \in store.batches :
          b.status = batchStatusCompleted
              <=> (pc = "returned" /\ loopErr = "nil" /\ statusUpdates = 1)
    /\ pc = "complete" => cyclesOK = dailyCheckpointDays

\* a run that was restarted, saw a skipped day and completed the batch
C6_Witness ==
    /\ pc = "returned"
    /\ loopErr = "nil"
    /\ executions > 1
    /\ \E b \in store.batches : b.id = state.BatchID /\ b.status = batchStatusCompleted
    /\ \E c \in CheckpointsOf(store, state.BatchID) : c.status = checkpointStatusSkipped

C8_ResumesAtFirstOpenDay ==
    /\ (last.op = "loop" /\ pc = "sleep") => day \notin cyclesDone
    /\ last.op = "cycle" => ~last.rerun

(* C8, as the code has it: a restarted loop starts at day 0 again; the         *)
(* suspension of a day whose cycle had completed returns without sleeping, and *)
(* the cycle of that day is executed again with the scheduled day it had the   *)
(* first time.                                                                 *)
C8_RestartsAtDayZero ==
    /\ (last.op = "loop" /\ pc = "sleep") => day = 0
    /\ (last.op = "sleep" /\ last.day \in cyclesDone) => (last.slept = 0 /\ last.err = "nil")
    /\ pc \in {"sleep", "cycle"} => (\A d \in 0..(day - 1) : d \in cyclesDone)
    /\ executions <= 1 => (last.op = "cycle" => ~last.rerun)

\* after a restart the cycle of a completed day ran again and wrote a checkpoint
C8_Witness ==
    /\ executions > 1
    /\ last.op = "cycle"
    /\ last.rerun
    /\ last.storeErr = "nil"

(* C9: when the benchmark quote has a blank previous close, the cycle fetches  *)
(* no pick quote and writes a checkpoint with status skipped, no benchmark     *)
(* field and no metrics, dated at the latest day before the scheduled day that *)
(* is neither a Saturday nor a Sunday; the cycle succeeds when the store takes *)
(* the write or has a checkpoint for that date, and the row a successful write *)
(* leaves is that checkpoint.                                                  *)
C9_FallbackDate(scheduled) ==
    CHOOSE d \in (scheduled - DaysPerWeek) .. (scheduled - 1) :
        /\ Weekday(d) \notin {Saturday, Sunday}
        /\ \A e \in (d + 1) .. (scheduled - 1) : Weekday(e) \in {Saturday, Sunday}

C11_BenchmarkFirst ==
    /\ fanPc \in {"start", "bench"}
          => (fanLaunched = 0 /\ \A i \in 1..FanCount : fanTasks[i].st = "idle")
    /\ (fanLaunched > 0 \/ \E i \in 1..FanCount : fanTasks[i].st # "idle")
          => /\ fanBench.err = "nil"
             /\ fanBench.quote.PreviousClose # Blank
    /\ fanPc = "done" => last.pickFetches = fanLaunched

\* pick fetches are in flight after a benchmark quote with a price
C11_Witness ==
    /\ InFlight # {}
    /\ fanBench.err = "nil"
    /\ fanBench.quote.PreviousClose.k = "dec"
    /\ fanPc = "launch"

(* C12: at every instant of a daily cycle at most priceFanoutConcurrency = 3   *)
(* pick fetches are in flight, however many distinct tickers the picks have;   *)
(* no more than 3 goroutines hold a slot of the semaphore.                     *)
C12_AtMostThreeInFlight ==
    /\ Cardinality(InFlight) <= 3
    /\ Cardinality(SemHolders) <= 3
    /\ InFlight \subseteq SemHolders

\* more tickers than slots: three fetches in flight and the launch loop waiting
C12_Witness ==
    /\ FanCount > 3
    /\ Cardinality(InFlight) = 3
    /\ fanPc = "launch"
    /\ fanLaunched < FanCount

(* C13: when a pick fetch of the fan-out ended in an error, fetchPickQuotes    *)
(* returns an error of a pick fetch and no quotes (never a partial map), it    *)
(* returns success only with the quote of every ticker, and the cycle returns  *)
(* the error of the fan-out without any call of the store: no checkpoint is    *)
(* persisted.                                                                  *)
C13_FanoutFailsFast ==
    /\ fanRet.err \notin {"none", "nil"}
          => /\ fanRet.quotes = {}
             /\ \E i \in 1..FanCount : fanTasks[i].answer.err = fanRet.err
    /\ fanRet.err = "nil"
          => /\ fanRet.quotes = 1..FanCount
             /\ \A i \in 1..FanCount : fanTasks[i].answer.err = "nil"
    /\ (fanPc \in {"tail", "done"} /\ \E i \in 1..FanCount : fanTasks[i].answer.err \notin {"none", "nil"})
          => fanRet.err \notin {"none", "nil"}
    /\ (fanPc = "done" /\ fanRet.err \notin {"none", "nil"})
          => /\ last.err = fanRet.err
             /\ last.storeErr = "none"
             /\ last.input = NoInput
             /\ loopErr = fanRet.err
             /\ pc = "returned"
             /\ Cardinality(store.checkpoints) = 1
             /\ store.metrics = {}

\* quotes had been collected when the error of another ticker ended the fan-out
C13_Witness ==
    /\ fanPc = "done"
    /\ fanRet.err = "ErrFetch"
    /\ fanQuotes # {}
    /\ \E i \in 1..FanCount : fanTasks[i].answer.err = "nil"

C15_Targets(n) ==
    [d \in 1..n |-> [date |-> parseDate(state.RunDate).date + (d - 1), hour |-> 9,
                     minute |-> 0, location |-> "America/New_York"]]

(* C15: an execution of the loop that runs to its end has requested exactly 14 *)
(* suspensions, in increasing order, the one of day d for the run date plus d  *)
(* days at 09:00 America/New_York; the cycle of day d runs after suspension d  *)
(* has returned and before suspension d + 1 is requested.                      *)
C15_FourteenSuspensionsInOrder ==
    /\ pc = "sleep" => suspensions = C15_Targets(day)
    /\ pc = "cycle" => (suspensions = C15_Targets(day + 1) /\ last.op = "sleep"
                        /\ last.day = day /\ last.err = "nil")
    /\ last.op = "cycle" => suspensions = C15_Targets(last.day + 1)
    /\ pc = "complete" => (suspensions = C15_Targets(14) /\ cyclesOK = 14)
    /\ last.op = "complete" => (suspensions = C15_Targets(14) /\ cyclesOK = 14)
    /\ \A i, j \in 1..Len(suspensions) : i < j => suspensions[i].date < suspensions[j].date

\* the loop ran to its end: fourteen suspensions and the batch completed
C15_Witness ==
    /\ pc = "returned"
    /\ last.op = "complete"
    /\ loopErr = "nil"
    /\ Len(suspensions) = 14
    /\ suspensions[14].date = parseDate(state.RunDate).date + 13

\* max(1, maxAttempts) of the policy of the call
C16_Limit == IF rCfg.MaxAttempts > 1 THEN rCfg.MaxAttempts ELSE 1

(* C16: while the context stays live, retry.Do invokes the operation until the *)
(* first success, the first error classified as non-retryable, or              *)
(* max(1, maxAttempts) invocations: it goes on only after a retryable failure  *)
(* with invocations left, and it returns nil after a success and otherwise the *)
(* error of the last invocation. Under maxAttempts = 3 and baseDelay = 0 a     *)
(* success in the third invocation is returned after exactly 3 invocations,    *)
(* and a non-retryable error in the first ends Do after exactly 1.             *)
C16_InvocationCount ==
    rCancel.at = "never"
       => /\ rCalls <= C16_Limit
          /\ rAttempt = (IF rPc \in {"check", "call"} THEN rCalls + 1 ELSE rCalls)
          /\ (rPc # "done" /\ rCalls >= 1)
                => (~rLast.nil /\ isRetryableError(rLast) /\ rCalls < C16_Limit)
          /\ rPc = "done"
                => /\ rCalls >= 1
                   /\ rRet.returned
                   /\ rRet.err = rLast
                   /\ \/ rLast.nil
                      \/ ~isRetryableError(rLast)
                      \/ rCalls = C16_Limit
          /\ (rCalls >= 1 /\ (rLast.nil \/ ~isRetryableError(rLast) \/ rCalls = C16_Limit))
                => rPc = "done"

\* two retryable failures and a success under {maxAttempts: 3, baseDelay: 0}
C16_Witness ==
    /\ rCfg = ZeroDelayConfig
    /\ rCancel.at = "never"
    /\ rPc = "done"
    /\ rRet.err.nil
    /\ rCalls = 3

(* C17: when the context has ended before retry.Do is called the operation is  *)
(* invoked zero times and Do returns the context's error; the operation is     *)
(* never entered under a context that had ended at the check of the attempt;   *)
(* and when the context ends during a backoff wait or ahead of a check, Do     *)
(* returns the context's error without another invocation.                     *)
C17_CancellationStopsDo ==
    /\ rCancel.at = "before" => rCalls = 0
    /\ rCancel.at \in {"before", "check", "wait"}
          => /\ rCalls = rCancel.calls
             /\ rPc # "call"
             /\ rPc = "done" => (rRet.returned /\ rRet.err = [nil |-> FALSE, status |-> 0,
                                                              net |-> FALSE, ctx |-> rCtx])
    /\ rCancel.at = "call" => rCalls <= rCancel.calls + 1
    /\ (rCancel.at = "never") = (rCtx = "none")

\* the context ended during a backoff wait and Do returned its error
C17_Witness ==
    /\ rCancel.at = "wait"
    /\ rCancel.calls >= 1
    /\ rPc = "done"
    /\ rRet.err.ctx = rCtx
    /\ rCalls = rCancel.calls

\* base x 2^(k-1) of the latest wait
C18_Backoff == rCfg.BaseDelay * (2 ^ (rWait.attempt - 1))

C18_Min(a, b) == IF a < b THEN a ELSE b

(* C18: the wait after the retryable failure of attempt k is                   *)
(* min(base x 2^(k-1) x (1 + j), maxDelay) with j the drawn share of the       *)
(* jitter fraction, 0 <= j < jitter: it is never shorter than                  *)
(* min(base x 2^(k-1), maxDelay) and never longer than maxDelay; Do waits      *)
(* exactly when that delay is positive. The default policy is 500 ms, 5 s, 20%. *)
C18_BackoffBounds ==
    /\ DefaultConfig = [MaxAttempts |-> 3, BaseDelay |-> 500, MaxDelay |-> 5000, Jitter |-> 20]
    /\ rWait.attempt >= 1
          => /\ rWait.delay = C18_Min(C18_Backoff
                                        + (rWait.rand * rCfg.Jitter * C18_Backoff) \div 100000,
                                      rCfg.MaxDelay)
             /\ rWait.delay >= C18_Min(C18_Backoff, rCfg.MaxDelay)
             /\ rWait.delay <= rCfg.MaxDelay
             /\ rWait.delay <= C18_Min((C18_Backoff * (100 + rCfg.Jitter)) \div 100, rCfg.MaxDelay)
    /\ rPc = "wait" => (rWait.attempt = rAttempt /\ rWait.delay > 0)

\* the fifth wait of the default policy hits the cap of 5 s
C18_Witness ==
    /\ rPc = "wait"
    /\ rCfg.BaseDelay = 500
    /\ rWait.attempt = 5
    /\ rWait.rand = 999
    /\ rWait.delay = 5000

\* a network-transport error that is no cancellation or deadline error, or an
\* HTTP 429 or 5xx response
C19_Transient(e) ==
    /\ ~e.nil
    /\ e.ctx = "none"
    /\ \/ (e.status = 0 /\ e.net)
       \/ e.status = 429
       \/ e.status \in 500..599

(* C19: an error of the fetch is retried exactly when it is a network-transport *)
(* error or an HTTP 429 or 5xx response and no cancellation or deadline error:  *)
(* after any other error (a 4xx status other than 429, a cancellation or        *)
(* deadline error, a decoding error) Do returns that error without another      *)
(* invocation, so such an error in the first invocation leaves exactly one     *)
(* invocation; after a transient error Do goes on unless the attempts are used  *)
(* up.                                                                         *)
C19_RetryableClasses ==
    rCalls >= 1 /\ ~rLast.nil
       => /\ ~C19_Transient(rLast) => (rPc = "done" /\ rRet.err = rLast)
          /\ (C19_Transient(rLast) /\ rPc = "done" /\ rRet.err = rLast)
                => rCalls = C16_Limit
          /\ (C19_Transient(rLast) /\ rCalls < C16_Limit /\ rCtx = "none") => rPc # "done"

\* a 400 response in the first invocation under a policy of three attempts
C19_Witness ==
    /\ rCfg.MaxAttempts = 3
    /\ rCalls = 1
    /\ rLast.status = 400
    /\ rPc = "done"
    /\ rRet.err = rLast

\* a positive decimal string
C20_Positive(value) == value.k = "dec" /\ value.v > 0

\* 10^8 times the distance, in units of 1/i, between the returned percentage and
\* (c - i) / i x 100, for prices of i and c hundredths
C20_Error(i, c, pct) ==
    LET d == (IF c >= i THEN c - i ELSE i - c) * 100
    IN  ((pct.ip - d \div i) * 100000000 + pct.fp) * i - (d % i) * 100000000

(* C20: for valid positive decimal strings i and c calculateReturnPct returns  *)
(* (c - i) / i x 100 with exactly 8 fractional digits, the digit string        *)
(* nearest to the exact quotient and of its sign; it returns an error and no   *)
(* value whenever i <= 0, c <= 0, or an input is no number or blank.           *)
C20_ReturnPct ==
    pctOut.err # "none"
       => IF C20_Positive(pctIn.initial) /\ C20_Positive(pctIn.current)
          THEN /\ pctOut.err = "nil"
               /\ pctOut.val.k = "pct"
               /\ pctOut.val.fp \in 0..99999999
               /\ pctOut.val.ip >= 0
               /\ pctOut.val.neg = (pctIn.current.v < pctIn.initial.v)
               /\ 2 * C20_Error(pctIn.initial.v, pctIn.current.v, pctOut.val) <= pctIn.initial.v
               /\ 2 * C20_Error(pctIn.initial.v, pctIn.current.v, pctOut.val) >= -pctIn.initial.v
          ELSE /\ pctOut.err # "nil"
               /\ pctOut.val = Blank

\* 0.03 -> 0.05: 66.66666667, the last digit rounded up
C20_Witness ==
    /\ pctIn = [initial |-> [k |-> "dec", v |-> 3], current |-> [k |-> "dec", v |-> 5]]
    /\ pctOut.err = "nil"
    /\ pctOut.val = [k |-> "pct", neg |-> FALSE, ip |-> 66, fp |-> 66666667]

\* the integer part and the fractional digits of a stored percentage, with its sign
C21_Ip(p) == IF p.neg THEN -p.ip ELSE p.ip
C21_Fp(p) == IF p.neg THEN -p.fp ELSE p.fp

\* absolute - benchmark - vs is zero in every one of the 8 fractional digits
C21_NoResidue(absolute, benchmark, vs) ==
    LET ipd == C21_Ip(absolute) - C21_Ip(benchmark) - C21_Ip(vs)
        fpd == C21_Fp(absolute) - C21_Fp(benchmark) - C21_Fp(vs)
    IN  /\ ipd \in -3..3
        /\ ipd * 100000000 + fpd = 0

(* C21: every stored metric belongs to a computed checkpoint, and its          *)
(* vs_benchmark_pct is its stored absolute_return_pct minus the stored         *)
(* benchmark_return_pct of that checkpoint, exact in all 8 fractional digits;  *)
(* 100 -> 95 gives -5.00000000, 50 -> 55 gives 10.00000000, and their          *)
(* difference is 15.00000000.                                                  *)
C21_VsBenchmarkIsDifference ==
    /\ \A m \in store.metrics :
          \E c \in store.checkpoints :
              /\ c.id = m.checkpoint_id
              /\ c.status = "computed"
              /\ c.benchmark_return_pct.k = "pct"
              /\ m.absolute_return_pct.k = "pct"
              /\ m.vs_benchmark_pct.k = "pct"
              /\ m.vs_benchmark_pct.fp \in 0..99999999
              /\ C21_NoResidue(m.absolute_return_pct, c.benchmark_return_pct, m.vs_benchmark_pct)
    /\ calculateReturnPct([k |-> "dec", v |-> 10000], [k |-> "dec", v |-> 9500]).val
          = [k |-> "pct", neg |-> TRUE, ip |-> 5, fp |-> 0]
    /\ calculateReturnPct([k |-> "dec", v |-> 5000], [k |-> "dec", v |-> 5500]).val
          = [k |-> "pct", neg |-> FALSE, ip |-> 10, fp |-> 0]
    /\ subtractDecimalStrings([k |-> "pct", neg |-> FALSE, ip |-> 10, fp |-> 0],
                              [k |-> "pct", neg |-> TRUE, ip |-> 5, fp |-> 0]).val
          = [k |-> "pct", neg |-> FALSE, ip |-> 15, fp |-> 0]

\* a stored metric of a pick that gained against a benchmark that lost, both
\* returns with digits behind the point
C21_Witness ==
    \E m \in store.metrics : \E c \in store.checkpoints :
        /\ c.id = m.checkpoint_id
        /\ c.benchmark_return_pct.neg
        /\ c.benchmark_return_pct.fp # 0
        /\ ~m.absolute_return_pct.neg
        /\ m.absolute_return_pct.fp # 0
        /\ m.vs_benchmark_pct # m.absolute_return_pct

\* a string that is not blank and is no positive decimal
C22_Bad(value) ==
    /\ value \notin {Blank, Null}
    /\ ~(value.k = "dec" /\ value.v > 0)

\* some operand of the arithmetic of the last cycle is bad: the benchmark
\* baseline, the benchmark price, a pick baseline or a pick price
C22_BadOperand ==
    \/ C22_Bad(state.BenchmarkInitialPrice)
    \/ C22_Bad(last.benchClose)
    \/ \E i \in 1..Len(state.Picks) : C22_Bad(state.Picks[i].InitialPrice)
    \/ last.pickBad

\* the last cycle returned an error and made no call of the store
C22_FailedClosed ==
    /\ last.err # "nil"
    /\ last.input = NoInput
    /\ last.storeErr = "none"

(* C22 as stated: whenever an operand of a cycle is non-blank but unparsable   *)
(* or non-positive, the cycle returns an error and persists no checkpoint and  *)
(* no metric.                                                                  *)
C22_BadOperandFailsCycle ==
    (last.op = "cycle" /\ C22_BadOperand) => C22_FailedClosed

(* C22 amended: in a cycle whose benchmark fetch and pick fetches all returned *)
(* a non-blank previous close (the cycle is not skipped), an operand that is   *)
(* unparsable or non-positive makes the cycle return an error without any call *)
(* of the store: no checkpoint and no metric is persisted and no return is     *)
(* replaced by zero. A cycle with a blank previous close writes its skipped    *)
(* checkpoint whatever the other operands are.                                 *)
C22_BadOperandFailsComputedCycle ==
    /\ (/\ last.op = "cycle"
        /\ last.benchClose \notin {Null, Blank}
        /\ ~last.pickErr
        /\ ~last.pickBlank
        /\ C22_BadOperand) => C22_FailedClosed
    /\ \A c \in store.checkpoints :
          c.benchmark_return_pct # Null => c.benchmark_return_pct.k = "pct"
    /\ (last.op = "cycle" /\ last.input.Status = "computed")
          => /\ ~C22_BadOperand
             /\ \A i \in 1..Len(last.input.Metrics) :
                   last.input.Metrics[i].AbsoluteReturnPct
                      = calculateReturnPct(state.Picks[i].InitialPrice,
                                           last.input.Metrics[i].CurrentPrice).val

\* a pick price that is no number, every other price present: the cycle failed
C22_Witness ==
    /\ last.op = "cycle"
    /\ last.pickBad
    /\ ~last.pickBlank
    /\ ~last.pickErr
    /\ last.benchClose.k = "dec"
    /\ last.err = "ErrInvalidValue"
    /\ last.input = NoInput

----------------------------------------------------------------------------
(* Properties of the persistence gateway *)

\* the input PersistBatch builds from the snapshot of a run date
BatchInputOf(runDate) ==
    LET input == ValidSnapshot(runDate)
    IN  [RunDate |-> runDate, BenchmarkSymbol |-> input.BenchmarkSymbol,
         BenchmarkInitialPrice |-> input.BenchmarkInitialPrice, Status |-> "active",
         Picks |-> input.Picks, CheckpointDate |-> LastClosedSession(runDate),
         CheckpointStatus |-> checkpointStatusComputed,
         BenchmarkPrice |-> input.BenchmarkInitialPrice, BenchmarkReturnPct |-> Null]

(* C23: creating a batch for a run date that has a batch already fails with    *)
(* ErrRunDateConflict (unless the transaction cannot even begin, which fails   *)
(* otherwise) and adds no batch, pick or checkpoint row: the store is as it    *)
(* was; and every reachable store holds at most one batch per run date.        *)
C23_DuplicateRunDateConflicts ==
    /\ \A a, b \in store.batches : a.run_date = b.run_date => a = b
    /\ \A b \in store.batches : \A fault \in FaultPoints :
          LET r == CreateBatchWithInitialCheckpoint(store, BatchInputOf(b.run_date), fault)
          IN  /\ r.store = store
              /\ fault # "begin" => r.err = "ErrRunDateConflict"
              /\ r.err # "nil"
    /\ (/\ gwCall.op = "persist_batch" /\ gwCall.phase = "returned"
        /\ \E b \in gwCall.before.batches : b.run_date = gwCall.key)
          => gwCall.err = "ErrRunDateConflict" /\ store = gwCall.before

\* a workflow started again for a run date found the batch of that run date
C23_Witness ==
    /\ gwCall.op = "persist_batch" /\ gwCall.phase = "returned"
    /\ gwCall.err = "ErrRunDateConflict"
    /\ \E b \in store.batches : b.run_date = gwCall.key
    /\ Cardinality(store.batches) = Cardinality(StoreRunDates)

\* persist_batch has returned, and its run date had a batch when it was called
C24_MetConflict ==
    /\ gwCall.op = "persist_batch" /\ gwCall.phase = "returned"
    /\ \E b \in gwCall.before.batches : b.run_date = gwCall.key

(* C24: when the insert of the batch of a weekly workflow meets a batch of the  *)
(* same run date, the step persist_batch does not report a failure.            *)
C24_RunDateConflictIsSuccess == C24_MetConflict => gwCall.err = "nil"

(* C24, as the code has it: when the insert of the batch of a weekly workflow   *)
(* meets a batch of the same run date, persist_batch returns the error (which  *)
(* still is ErrRunDateConflict to errors.Is) and no workflow state, and the     *)
(* store is as it was.                                                         *)
C24_RunDateConflictFailsStep ==
    /\ C24_MetConflict => gwCall.err = "ErrRunDateConflict" /\ store = gwCall.before
    /\ \A b \in store.batches :
          LET r == PersistBatchStep(store, ValidSnapshot(b.run_date), "none")
          IN  r.err = "ErrRunDateConflict" /\ r.state = NoState /\ r.store = store

\* a second workflow of a run date has failed in persist_batch
C24_Witness ==
    /\ C24_MetConflict
    /\ gwCall.err # "nil"
    /\ \E b \in store.batches : b.run_date = gwCall.key /\ b.status = "active"

\* the inputs that break the rule of their status
C25_InvalidShapes ==
    {"computed_no_price", "computed_no_return", "skipped_price", "skipped_return",
     "skipped_metric"}

(* C25: CreateCheckpointWithMetrics rejects a computed checkpoint without       *)
(* benchmark price or without benchmark return, and a skipped checkpoint with  *)
(* a benchmark price, a benchmark return or a metric, before it begins a       *)
(* transaction or executes a statement (whatever the state of the database),   *)
(* and the store is as it was; no other input is rejected that way.            *)
C25_InvalidCheckpointRejected ==
    /\ (gwCall.op = "create_checkpoint" /\ gwCall.phase = "returned")
          => /\ gwCall.shape \in C25_InvalidShapes <=> gwCall.err = "ErrValidation"
             /\ gwCall.err = "ErrValidation"
                   => gwCall.k = 0 /\ gwCall.pending = EmptyStore /\ store = gwCall.before
    /\ (gwCall.op = "create_checkpoint" /\ gwCall.phase = "open")
          => gwCall.shape \notin C25_InvalidShapes
    /\ \A b \in store.batches : \A shape \in CheckpointShapes : \A fault \in FaultPoints :
          LET r == CreateCheckpointWithMetrics(store, CheckpointInput(b, shape), fault)
          IN  /\ shape \in C25_InvalidShapes <=> r.err = "ErrValidation"
              /\ r.err = "ErrValidation" => r.store = store

\* a skipped checkpoint with a metric has been rejected, for a batch that has a
\* checkpoint of that date with its metrics
C25_Witness ==
    /\ gwCall.op = "create_checkpoint" /\ gwCall.phase = "returned"
    /\ gwCall.shape = "skipped_metric" /\ gwCall.err = "ErrValidation"
    /\ \E c \in store.checkpoints :
          c.batch_id = gwCall.key /\ c.checkpoint_date = gwCall.input.CheckpointDate
    /\ store.metrics # {}

(* C26: a checkpoint and its metrics are written atomically.  While the        *)
(* transaction of CreateCheckpointWithMetrics is open the committed store is   *)
(* as it was when the call began; when the call has returned success the store *)
(* has gained the checkpoint and every metric of the input; when it has        *)
(* returned an error (at the checkpoint, at a later metric or at commit) the   *)
(* store is as it was.  In every state every stored metric has its parent      *)
(* checkpoint, and a stored checkpoint has all the metrics passed with it or,  *)
(* being skipped or the baseline of a batch, none.                             *)
C26_CheckpointWithMetricsAtomic ==
    /\ \A m \in store.metrics : \E c \in store.checkpoints : c.id = m.checkpoint_id
    /\ \A c \in store.checkpoints :
          Cardinality(MetricsOf(store, c.id)) =
              IF c.status = checkpointStatusComputed /\ c.benchmark_return_pct # Null
              THEN RequiredPicks ELSE 0
    /\ (gwCall.op = "create_checkpoint" /\ gwCall.phase = "open") => store = gwCall.before
    /\ (gwCall.op = "create_checkpoint" /\ gwCall.phase = "returned")
          => /\ gwCall.pending = EmptyStore
             /\ gwCall.err # "nil" => store = gwCall.before
             /\ gwCall.err = "nil"
                   => store = [gwCall.before EXCEPT
                                 !.checkpoints =
                                     @ \cup {CheckpointRowOf(gwCall.before, gwCall.input)},
                                 !.metrics = @ \cup MetricRowsOf(gwCall.before, gwCall.input)]
             /\ \E fault \in FaultPoints :
                   LET r == CreateCheckpointWithMetrics(gwCall.before, gwCall.input, fault)
                   IN  r.err = gwCall.err /\ r.store = store

\* the insert of the last metric has failed after the checkpoint and the earlier
\* metrics had been written inside the transaction
C26_Witness ==
    /\ gwCall.op = "create_checkpoint" /\ gwCall.phase = "returned"
    /\ gwCall.shape = "computed_unknown_pick"
    /\ gwCall.k = RequiredPicks /\ gwCall.err = "ErrDB"
    /\ ~\E c \in store.checkpoints :
          c.batch_id = gwCall.key /\ c.checkpoint_date = gwCall.input.CheckpointDate

(* C27: UpdateBatchStatus is idempotent: on every reachable store, for every    *)
(* stored batch and every status, the call and the same call once more both    *)
(* succeed, the second leaves the store as the first left it, and the first    *)
(* changes the status of that batch and nothing else: no other batch, no pick, *)
(* no checkpoint, no metric.                                                   *)
C27_UpdateBatchStatusIdempotent ==
    /\ \A b \in store.batches : \A status \in BatchStatuses :
          LET once == UpdateBatchStatus(store, b.id, status, "none")
              twice == UpdateBatchStatus(once.store, b.id, status, "none")
          IN  /\ once.err = "nil" /\ twice.err = "nil"
              /\ twice.store = once.store
              /\ once.store = [store EXCEPT !.batches =
                                  (@ \ {b}) \cup {[b EXCEPT !.status = status]}]
    /\ (gwCall.op = "update_status" /\ gwCall.phase = "returned" /\ gwCall.err = "nil")
          => /\ store.picks = gwCall.before.picks
             /\ store.checkpoints = gwCall.before.checkpoints
             /\ store.metrics = gwCall.before.metrics
             /\ {b \in store.batches : b.id # gwCall.key}
                    = {b \in gwCall.before.batches : b.id # gwCall.key}
             /\ \A b \in store.batches : b.id = gwCall.key => b.status = gwCall.shape
             /\ (\E b \in gwCall.before.batches :
                    b.id = gwCall.key /\ b.status = gwCall.shape) => store = gwCall.before
    /\ (gwCall.op = "update_status" /\ gwCall.phase = "returned" /\ gwCall.err # "nil")
          => store = gwCall.before

\* a batch that was completed has been set to completed again, next to another
\* batch that is active
C27_Witness ==
    /\ gwCall.op = "update_status" /\ gwCall.phase = "returned" /\ gwCall.err = "nil"
    /\ gwCall.shape = batchStatusCompleted
    /\ \E b \in gwCall.before.batches : b.id = gwCall.key /\ b.status = batchStatusCompleted
    /\ \E b \in store.batches : b.id # gwCall.key /\ b.status = "active"
    /\ store.metrics # {}

(* C28: a checkpoint is inserted only for a batch whose status is active: no    *)
(* step, be it a cycle, a cycle executed again or a retry, adds a checkpoint   *)
(* to a batch whose status is completed or failed.                             *)
C28_CheckpointsOnlyForActiveBatch ==
    [][\A c \in store'.checkpoints \ store.checkpoints :
          \E b \in store'.batches : b.id = c.batch_id /\ b.status = "active"]_vars

----------------------------------------------------------------------------
(* Properties of the initial price snapshot *)

\* the symbols SnapshotPreviousCloses was asked for
C29_Symbols == {snap.benchmark} \cup {snap.picks[i] : i \in 1..Len(snap.picks)}

(* C29: the initial price snapshot is all or error: when SnapshotPreviousCloses *)
(* has returned without error its result holds one quote for the benchmark and *)
(* for every distinct pick ticker and nothing else, each with a previous close *)
(* and a trading day that are not blank; when it has returned an error it has  *)
(* returned no quote.  persist_batch runs only on the output of a snapshot     *)
(* that succeeded, and no stored batch, pick or baseline checkpoint has a      *)
(* blank or missing baseline price.                                            *)
C29_SnapshotAllOrError ==
    /\ \A q \in snap.result : q.PreviousClose # Blank /\ q.TradingDay # Blank
    /\ (snap.pc \in {"returned", "output", "failed", "persisted"} /\ snap.err = "nil")
          => /\ {q.Symbol : q \in snap.result} = C29_Symbols
             /\ Cardinality(snap.result) = Cardinality(C29_Symbols)
    /\ (snap.pc \in {"returned", "output", "failed", "persisted"} /\ snap.err # "nil")
          => snap.result = {}
    /\ snap.pc \in {"output", "persisted"}
          => /\ snap.err = "nil" /\ snap.stepErr = "nil"
             /\ snap.output.BenchmarkInitialPrice # Blank
             /\ \A i \in 1..Len(snap.output.Picks) : snap.output.Picks[i].InitialPrice # Blank
    /\ snap.pc \notin {"output", "persisted"} => store = EmptyStore
    /\ \A b \in store.batches : b.benchmark_initial_price \notin {Blank, Null}
    /\ \A p \in store.picks : p.initial_price \notin {Blank, Null}
    /\ \A c \in store.checkpoints : c.benchmark_price \notin {Blank, Null}

\* the benchmark and the first pick had their quotes, the quote of a later pick
\* has no previous close: the step has failed and no batch is stored
C29_Witness ==
    /\ snap.pc = "failed"
    /\ snap.err = "ErrMissingPreviousClose" /\ snap.stepErr = snap.err
    /\ snap.fetches = RequiredPicks
    /\ snap.result = {}
    /\ store = EmptyStore

----------------------------------------------------------------------------
(* Properties of the batch listing *)

C30_StoredRunDates == {b.run_date : b \in store.batches}
C30_Seen == {page.seen[i] : i \in 1..Len(page.seen)}

\* one page of the listing, for the rows below the cursor
C30_PageContract(limit, cursor) ==
    LET r == ListBatches(store, limit, cursor)
        n == Len(r.Batches)
        below == {d \in C30_StoredRunDates : cursor # Null => d < cursor.v}
        returned == {r.Batches[i].RunDate.v : i \in 1..n}
    IN  /\ n = (IF Cardinality(below) < limit THEN Cardinality(below) ELSE limit)
        /\ \A i \in 1..n : r.Batches[i].RunDate.k = "date"
        /\ \A i, j \in 1..n : i < j => r.Batches[i].RunDate.v > r.Batches[j].RunDate.v
        /\ returned \subseteq below
        /\ \A d \in below \ returned : \A e \in returned : d < e
        /\ r.NextCursor # Null <=> below \ returned # {}
        /\ r.NextCursor # Null => r.NextCursor = r.Batches[n].RunDate

(* C30: a client that asks for pages of at most L batches (L in 1..100; 20     *)
(* when it names no limit), first without a cursor and then with the           *)
(* next_cursor of the page before, receives batches in strictly descending     *)
(* order of run date, so none twice, and at most L of them per page, every     *)
(* page before the last one full; next_cursor is the run date of the last      *)
(* batch of the page when batches with an earlier run date are stored and null *)
(* otherwise, and when it is null the client has received every batch that    *)
(* was stored when it began: every stored batch, if none was added meanwhile.  *)
C30_PagingVisitsEveryBatchOnce ==
    /\ \A limit \in 1..MaxLimit : \A cursor \in {Null} \cup {DateStr(d) : d \in ListRunDates} :
          C30_PageContract(limit, cursor)
    /\ C30_PageContract(defaultListLimit, Null) /\ C30_PageContract(maxListLimit, Null)
    /\ page.phase \in {"open", "done"}
          => /\ page.limit \in 1..maxListLimit
             /\ \A i, j \in 1..Len(page.seen) : i < j => page.seen[i] > page.seen[j]
             /\ \A k \in 1..Len(page.sizes) :
                   /\ page.sizes[k] <= page.limit
                   /\ k < Len(page.sizes) => page.sizes[k] = page.limit
             /\ C30_Seen \subseteq C30_StoredRunDates
    /\ page.phase = "open"
          => /\ page.seen # <<>>
             /\ page.cursor = DateStr(page.seen[Len(page.seen)])
             /\ page.sizes[Len(page.sizes)] = page.limit
    /\ page.phase = "done"
          => /\ page.cursor = Null
             /\ page.atStart \subseteq C30_Seen
             /\ C30_StoredRunDates = page.atStart => C30_Seen = C30_StoredRunDates
    /\ page.phase = "rejected" => page.seen = <<>> /\ page.err # "nil"

\* a walk of several pages has reached its last page and has returned every
\* stored batch
C30_Witness ==
    /\ page.phase = "done"
    /\ Len(page.sizes) = 2 /\ page.limit = MaxLimit
    /\ Len(page.seen) = MaxListWeeks
    /\ C30_Seen = C30_StoredRunDates

----------------------------------------------------------------------------
(* Properties of the pick generation *)

(* C31: GeneratePicks makes at most maxAttempts requests.  It returns the      *)
(* picks of the first response that passes validation (exactly 3 picks, their  *)
(* tickers distinct, every action BUY or SELL, every reasoning non-empty) and  *)
(* asks for no further response; when maxAttempts responses have failed        *)
(* validation it returns ErrInvalidOutput and no picks; it goes on only after  *)
(* a response that failed validation.                                          *)
C31_AtMostMaxAttempts ==
    /\ gen.requests <= gen.maxAttempts /\ gen.requests = Len(gen.seen)
    /\ \A i \in 1..(Len(gen.seen) - 1) : gen.seen[i].err = "ErrInvalidOutput"
    /\ gen.pc = "loop" => /\ gen.requests < gen.maxAttempts
                          /\ \A i \in 1..Len(gen.seen) : gen.seen[i].err = "ErrInvalidOutput"
    /\ (gen.ret.returned /\ gen.ret.err = "nil")
          => /\ gen.seen[Len(gen.seen)].err = "nil"
             /\ gen.ret.picks = gen.seen[Len(gen.seen)].content.picks
             /\ Len(gen.ret.picks) = RequiredPicks
             /\ \A i, j \in 1..Len(gen.ret.picks) :
                   i # j => gen.ret.picks[i].Ticker # gen.ret.picks[j].Ticker
             /\ \A i \in 1..Len(gen.ret.picks) :
                   /\ gen.ret.picks[i].Action \in {"BUY", "SELL"}
                   /\ gen.ret.picks[i].Reasoning # ""
    /\ (gen.ret.returned /\ gen.ret.err = "ErrInvalidOutput")
          => /\ gen.requests = gen.maxAttempts
             /\ gen.seen[Len(gen.seen)].err = "ErrInvalidOutput"
             /\ gen.ret.picks = <<>>
    /\ (gen.ret.returned /\ gen.ret.err # "nil") => gen.ret.picks = <<>>

\* the last of several attempts has failed validation as the ones before
C31_Witness ==
    /\ gen.ret.returned /\ gen.ret.err = "ErrInvalidOutput"
    /\ gen.maxAttempts = MaxGenAttempts /\ gen.requests = MaxGenAttempts

----------------------------------------------------------------------------
(* Properties of the pick fan-out *)

\* the launched fetches whose result the collect loop has not received
C32_Uncollected ==
    {i \in 1..FanCount : fanTasks[i].st \in {"fetching", "fetched"}}
        \cup {fanResults[k] : k \in 1..Len(fanResults)}

(* C32: fetchPickQuotes returns to its caller only when the result of every    *)
(* fetch it launched has been collected, on the success path and on the error  *)
(* path alike.                                                                 *)
C32_ReturnsAfterAllCollected == fanRet.err # "none" => C32_Uncollected = {}

(* C32, as the code has it: fetchPickQuotes returns when every goroutine has   *)
(* been launched.  It returns success only when the result of every fetch has  *)
(* been collected and none of them is an error; it returns an error as soon as *)
(* the collect loop receives a result with an error, with no quotes, whatever  *)
(* results are still to come or lie in the channel.                            *)
C32_ReturnsAtFirstErrorCollected ==
    /\ fanRet.err # "none" => fanLaunched = FanCount
    /\ fanRet.err = "nil"
          => /\ C32_Uncollected = {}
             /\ fanRet.quotes = 1..FanCount
             /\ \A i \in 1..FanCount : fanTasks[i].answer.err = "nil"
    /\ fanRet.err \notin {"none", "nil"}
          => /\ fanRet.quotes = {}
             /\ \A i \in fanQuotes : fanTasks[i].answer.err = "nil"
             /\ \E i \in 1..FanCount :
                   /\ fanTasks[i].st \in {"sent", "exited"}
                   /\ i \notin fanQuotes
                   /\ i \notin C32_Uncollected
                   /\ fanTasks[i].answer.err = fanRet.err
             /\ Cardinality(fanQuotes) + 1 + Cardinality(C32_Uncollected) = FanCount

\* the fan-out has returned an error while a fetch is in flight and a result
\* lies in the channel
C32_Witness ==
    /\ fanRet.err \notin {"none", "nil"}
    /\ \E i \in 1..FanCount : fanTasks[i].st = "fetching"
    /\ fanResults # <<>>

----------------------------------------------------------------------------
(* Properties of the evaluator cycle *)

C34_ValidCycleSucceeded ==
    /\ last.op = "cycle"
    /\ last.err = "nil"
    /\ last.input.Status = checkpointStatusComputed
    /\ last.benchDay.k = "date"
    /\ ~last.pickBlank /\ ~last.pickErr /\ ~last.pickBad

\* the store holds the checkpoint of the last cycle: its date, its benchmark
\* price and return, and one metric row per pick
C34_StoreHoldsCycle ==
    \E c \in CheckpointsOf(store, state.BatchID) :
        /\ c.checkpoint_date = last.benchDay.v
        /\ c.status = checkpointStatusComputed
        /\ c.benchmark_price = last.input.BenchmarkPrice
        /\ c.benchmark_return_pct = last.input.BenchmarkReturnPct
        /\ C5_WellFormedComputed(c)

(* C34: when a cycle in which the benchmark and every pick have valid prices   *)
(* returns success, the store holds for (batch, benchmark trading day) a       *)
(* computed checkpoint with the benchmark price and return of that cycle and   *)
(* exactly one metric row per pick.                                            *)
C34_ValidCycleStoresComputed == C34_ValidCycleSucceeded => C34_StoreHoldsCycle

\* f is the latest date strictly before the day s that is no Saturday and no
\* Sunday
C35_LatestWeekdayBefore(f, s) ==
    /\ f < s
    /\ Weekday(f) \notin {Saturday, Sunday}
    /\ \A x \in (f + 1)..(s - 1) : Weekday(x) \in {Saturday, Sunday}
    /\ s - f \in 1..3

(* C35: for every scheduled day of the loop the fallback checkpoint date is    *)
(* the latest calendar date strictly before the scheduled day that is neither  *)
(* a Saturday nor a Sunday, 1 to 3 days before it; it is a date (a whole day), *)
(* and it is the date of the skipped checkpoint that a cycle without a         *)
(* benchmark close hands to the store.                                         *)
C35_FallbackIsLatestWeekdayBefore ==
    /\ \A d \in 0..(dailyCheckpointDays - 1) :
          LET s == scheduledAt(RunDate, d)
          IN  /\ previousTradingDayFallback(s) \in Int
              /\ C35_LatestWeekdayBefore(previousTradingDayFallback(s), s)
    /\ (last.op = "cycle" /\ last.benchClose = Blank)
          => /\ last.input.Status = checkpointStatusSkipped
             /\ last.input.CheckpointDate \in Int
             /\ C35_LatestWeekdayBefore(last.input.CheckpointDate,
                                        scheduledAt(parseDate(state.RunDate).date, last.day))

\* a cycle scheduled on a Monday got no benchmark close: the fallback date is the
\* Friday, three days before
C35_Witness ==
    /\ last.op = "cycle"
    /\ last.benchClose = Blank
    /\ last.day > 0
    /\ last.input.CheckpointDate = scheduledAt(parseDate(state.RunDate).date, last.day) - 3

\* the checkpoint a cycle hands to the store is made from the workflow state s
C36_InputReads(input, s) ==
    /\ input.BatchID = s.BatchID
    /\ input.Status = checkpointStatusComputed
          => /\ input.BenchmarkReturnPct
                   = calculateReturnPct(s.BenchmarkInitialPrice, input.BenchmarkPrice).val
             /\ Len(input.Metrics) = Len(s.Picks)
             /\ \A i \in 1..Len(s.Picks) :
                   /\ input.Metrics[i].PickID = s.Picks[i].PickID
                   /\ input.Metrics[i].AbsoluteReturnPct
                         = calculateReturnPct(s.Picks[i].InitialPrice,
                                              input.Metrics[i].CurrentPrice).val

(* C36: the workflow state handed to the loop is never modified: from the      *)
(* return of persist_batch on, no step changes it, and every cycle, whatever   *)
(* the earlier cycles did, fetches the benchmark symbol of that state and       *)
(* makes its checkpoint from the batch id, the benchmark baseline and the pick *)
(* list with baselines of that state, which are those stored with the batch.   *)
C36_StateNeverModified ==
    [][/\ pc # "persist_batch" => state' = state
       /\ (pc = "cycle" /\ last'.op = "cycle")
             => /\ last'.input # NoInput => C36_InputReads(last'.input, state)
                /\ last'.benchClose # Null
                      => \E a \in FetchAnswers(state.BenchmarkSymbol, now) :
                            /\ a.quote.Symbol = defaultBenchmarkSymbol
                            /\ a.quote.PreviousClose = last'.benchClose
                /\ \E b \in store.batches :
                      /\ b.id = state.BatchID
                      /\ b.benchmark_symbol = state.BenchmarkSymbol
                      /\ b.benchmark_initial_price = ToNumeric(state.BenchmarkInitialPrice)
                /\ \A i \in 1..Len(state.Picks) :
                      \E p \in PicksOf(store, state.BatchID) :
                         /\ p.id = state.Picks[i].PickID
                         /\ p.ticker = state.Picks[i].Ticker
                         /\ p.initial_price = ToNumeric(state.Picks[i].InitialPrice)]_vars

\* a cycle of the second week has written a computed checkpoint after cycles that
\* were skipped and cycles that met a conflict
C36_Witness ==
    /\ last.op = "cycle"
    /\ last.day > DaysPerWeek
    /\ last.storeErr = "nil"
    /\ last.input.Status = checkpointStatusComputed
    /\ blankDays > 0
    /\ C36_InputReads(last.input, state)

----------------------------------------------------------------------------
(* Termination of the pick fan-out *)

(* C37: for 0 tickers, up to priceFanoutConcurrency tickers and more, and any  *)
(* mix of fetch successes and failures, when every fetch returns the cycle     *)
(* with its fan-out returns and every fetch goroutine it launched ends: none   *)
(* stays blocked on the semaphore or on the result channel, also when the      *)
(* fan-out returned early with an error.                                       *)
C37_FanoutAndTasksTerminate ==
    <>[](/\ fanPc = "tail"
         /\ Proceeds(fanBench) => (fanRet.err # "none" /\ fanLaunched = FanCount)
         /\ \A i \in 1..FanCount : fanTasks[i].st \in {"idle", "exited"}
         /\ \A i \in 1..fanLaunched : fanTasks[i].st = "exited"
         /\ SemHolders = {})

\* the fan-out over more tickers than the semaphore has slots returned the first
\* error, and afterwards every goroutine ended, a result left in the channel
C37_Witness ==
    /\ fanPc = "tail"
    /\ FanCount > priceFanoutConcurrency
    /\ fanRet.err \notin {"none", "nil"}
    /\ fanQuotes = {}
    /\ fanResults # <<>>
    /\ \A i \in 1..FanCount : fanTasks[i].st = "exited"

----------------------------------------------------------------------------
(* Properties of two concurrent cycles *)

\* the committed checkpoints of the (batch, date) the two cycles write
C38_Stored ==
    {c \in CheckpointsOf(store, state.BatchID) : c.checkpoint_date = race.date}

\* cycle w has committed its checkpoint
C38_Won(w) == race.tx[w].pc = "returned" /\ race.tx[w].storeErr = "nil"

(* C38: when two cycles of one batch write the checkpoint of the same date at  *)
(* the same time, under every interleaving at most one checkpoint of that      *)
(* (batch, date) is stored, it is the checkpoint of a cycle whose transaction  *)
(* committed, with all metrics of that cycle and no other metric; and when     *)
(* both cycles have returned and no store call failed, exactly one is stored   *)
(* and both cycles returned success, the other one after ErrCheckpointConflict.*)
C38_OneWinnerBothSucceed ==
    race.started =>
        /\ Cardinality(C38_Stored) <= 1
        /\ \A c \in C38_Stored :
              \E w \in RaceCycles :
                 /\ C38_Won(w)
                 /\ c = RaceCheckpointRow(race.tx[w])
                 /\ MetricsOf(store, c.id)
                       = {RaceMetricRow(race.tx[w], i) : i \in 1..Len(race.tx[w].input.Metrics)}
        /\ \A m \in store.metrics : \E c \in C38_Stored : m.checkpoint_id = c.id
        /\ \A w \in RaceCycles : C38_Won(w) => RaceCheckpointRow(race.tx[w]) \in C38_Stored
        /\ (\A c \in RaceCycles : /\ race.tx[c].pc = "returned"
                                  /\ race.tx[c].storeErr # "ErrDB")
              => /\ Cardinality(C38_Stored) = 1
                 /\ \A c \in RaceCycles : race.tx[c].err = "nil"
                 /\ \E w \in RaceCycles :
                       /\ C38_Won(w)
                       /\ \A o \in RaceCycles \ {w} :
                             race.tx[o].storeErr = "ErrCheckpointConflict"

\* both cycles have returned success: the second one committed a computed
\* checkpoint with its metrics, the first one met the conflict
C38_Witness ==
    /\ race.started
    /\ \A c \in RaceCycles : race.tx[c].pc = "returned" /\ race.tx[c].err = "nil"
    /\ C38_Won(2)
    /\ race.tx[2].input.Status = checkpointStatusComputed
    /\ race.tx[1].input.Status = checkpointStatusComputed
    /\ race.tx[1].storeErr = "ErrCheckpointConflict"
    /\ Cardinality(store.metrics) = RequiredPicks

----------------------------------------------------------------------------
(* Termination of the daily loop *)

\* the batch of the workflow has the status completed
C39_Completed ==
    \E b \in store.batches : b.id = state.BatchID /\ b.status = batchStatusCompleted

(* C39: the workflow returns; and when every suspension, every quote fetch and *)
(* every store call has returned without error (the last call included: the    *)
(* loop returns at the first error), the loop has returned success after       *)
(* exactly dailyCheckpointDays cycles and suspensions, and the batch status is *)
(* completed, whatever the cycles met: computed, skipped or already-existing   *)
(* checkpoints.                                                                *)
C39_LoopTerminatesCompleted ==
    <>[](/\ pc = "returned"
         /\ last.err = "nil"
               => /\ loopErr = "nil"
                  /\ last.op = "complete"
                  /\ cyclesOK = dailyCheckpointDays
                  /\ cyclesDone = 0..(dailyCheckpointDays - 1)
                  /\ Len(suspensions) = dailyCheckpointDays
                  /\ statusUpdates = 1
                  /\ C39_Completed)

\* the loop has returned success after a skipped day, with computed checkpoints
\* and conflicts on the other days
C39_Witness ==
    /\ pc = "returned"
    /\ loopErr = "nil"
    /\ cyclesOK = dailyCheckpointDays
    /\ blankDays > 0
    /\ C39_Completed
    /\ \E c \in CheckpointsOf(store, state.BatchID) : c.status = checkpointStatusSkipped
    /\ Cardinality(CheckpointsOf(store, state.BatchID)) < dailyCheckpointDays

----------------------------------------------------------------------------
(* Requests against the reserved rate-limit units *)

(* C40: one run of a rate-limited step for a batch of RequiredPicks picks      *)
(* sends at most alphaVantageRateLimitUnits requests to the provider, the      *)
(* number of units reserved for the step run.                                  *)
C40_RequestsWithinReservedUnits == req.requests <= alphaVantageRateLimitUnits

====
